---- MODULE Spec2Model ----
(***************************************************************************)
(* git-sync: the synchronization / build / deploy pipeline of              *)
(* src/src/processor.rs (RepoProcessor) driving src/src/git.rs (GitRepo).  *)
(*                                                                         *)
(* Under Spec one behaviour is one call of RepoProcessor::process_all;      *)
(* under DaemonSpec it is one run of run_daemon (src/src/main.rs), which    *)
(* calls process_all once per cycle; under FnSpec it is one call of a       *)
(* function of GitRepo on an arbitrary command outcome.  The external       *)
(* tools (git, npm) and the file system are the environment: every call    *)
(* of one of them is one step whose outcome is chosen nondeterministically *)
(* among the outcomes the call can have.  The code between two external    *)
(* calls belongs to the step of the call that precedes it.                 *)
(*                                                                         *)
(* Strings are modelled structurally: a path is the sequence of its        *)
(* components ("/a/dist" is <<"a", "dist">>), a formatted message is the   *)
(* tuple of the pieces format! concatenates, a command output is the       *)
(* sequence of its tokens.                                                 *)
(***************************************************************************)
EXTENDS Integers, Sequences, FiniteSets, TLC

VARIABLES
    repo_defs,   \* process_all's argument: Vec<RepoDefinition>
    verbose,     \* RepoProcessor.verbose
    pc,          \* the external call process_all is about to make
    idx,         \* position of the `for repo in repo_defs` iterator (1-based)
    errors,      \* process_all's local `errors: Vec<(String, String)>`
    ret,         \* the Result process_single is returning ("none" while running)
    result,      \* the Result process_all returned ("none" while running)
    branch,      \* check_and_pull's local `branch` (kept until the next call resolves it)
    behind,      \* the count check_and_pull matched on (-1: none yet)
    fs,          \* the file system: present path |-> node
    stack,       \* the active copy_recursive calls, innermost last
    ops,         \* history: external operations invoked for the current repository
    returned,    \* history: what process_single returned, one entry per call
    after_build, \* history: the file system as `npm run build` left it
    lines,       \* lines handed to the Logger since the previous repository returned
    platform,    \* the build target (cfg(unix) or not), "unknown" until the code depends on it
    dpc,         \* run_daemon's position
    cycle,       \* the number of calls of run_sync_cycle so far
    settings,    \* run_daemon's local `settings`
    settings_file, \* the content of config.toml
    repos_file,  \* the content of repositories.txt (a sequence of lines), None if missing
    cycles,      \* history: what each cycle read, processed and reported
    looping,     \* run_daemon is in its `loop` (continuous_mode was set when it started)
    call,        \* a function called on its own: which one, "none" before the call
    args,        \* the inputs of that call
    value,       \* what that call returned
    mpc,         \* run_loop's position: "running" until it returns, "idle" outside the manager
    input_mode,  \* RepoManager.input_mode
    input,       \* RepoManager.input
    repos,       \* RepoManager.repos
    list_state,  \* RepoManager.list_state.selected(): None or Some(index), 0-based
    message,     \* RepoManager.message
    written,     \* history: the list last handed to a write_repos that wrote the file
    key          \* history: the key event run_loop's last step handled ("none": it read none)

\* the variables of run_daemon
dvars == <<dpc, cycle, settings, settings_file, repos_file, cycles, looping>>

\* the variables of a function called on its own
fvars == <<call, args, value>>

\* the variables of the repository manager
mvars == <<mpc, input_mode, input, repos, list_state, message, written, key>>

\* what process_all does not touch
xvars == <<dvars, fvars, mvars>>

vars == <<repo_defs, verbose, pc, idx, errors, ret, result, branch, behind, fs, stack,
          ops, returned, after_build, lines, platform, xvars>>

----------------------------------------------------------------------------
(* Bounds of the model. *)

\* longest repository list given to process_all
MaxRepos == 2

\* largest behind-count `git rev-list --count` reports
MaxBehind == 1

----------------------------------------------------------------------------
(* Values. *)

\* Option and Result values are tagged tuples; a String is the sequence of the
\* pieces it was concatenated from.
None == <<"none">>

Some(x) == <<"some", x>>

IsSome(o) == o[1] = "some"

Ok == <<"ok">>

Err(msg) == <<"err", msg>>

IsOk(r) == r[1] = "ok"

IsErr(r) == r[1] = "err"

\* RepoDefinition { repo_path, deploy_target }
RepoDefinition(p, t) == [repo_path |-> p, deploy_target |-> t]

\* Path::join
Join(p, name) == Append(p, name)

IsPrefix(p, q) == Len(p) <= Len(q) /\ SubSeq(q, 1, Len(p)) = p

Last(s) == s[Len(s)]

----------------------------------------------------------------------------
(* The file system.  fs maps every present path to its node; the root <<>>  *)
(* is always a directory and is not stored.                                 *)

Node(k, d) == [kind |-> k, data |-> d]

Dir == Node("dir", "")

\* A function from a set of <<path, node>> pairs.
MkFs(S) == [p \in {e[1] : e \in S} |-> (CHOOSE e \in S : e[1] = p)[2]]

\* Path::exists.  No path the pipeline tests is a symbolic link in this model,
\* so following links is the identity here.
Exists(f, p) == p = <<>> \/ p \in DOMAIN f

\* Path::is_dir
IsDir(f, p) == p = <<>> \/ (p \in DOMAIN f /\ f[p].kind = "dir")

\* the names fs::read_dir(p) yields
ReadDir(f, p) == {Last(q) : q \in {r \in DOMAIN f : Len(r) = Len(p) + 1 /\ IsPrefix(p, r)}}

\* fs::remove_dir_all(p): p and everything below it
RemoveDirAll(f, p) == [q \in {r \in DOMAIN f : ~IsPrefix(p, r)} |-> f[q]]

Prefixes(p) == {SubSeq(p, 1, n) : n \in 1..Len(p)}

\* fs::create_dir_all(p) succeeds iff no existing component of p is a non-directory
CanCreateDirAll(f, p) == \A q \in Prefixes(p) : q \in DOMAIN f => f[q].kind = "dir"

\* fs::create_dir_all(p): p and its missing ancestors become directories
CreateDirAll(f, p) ==
    [q \in DOMAIN f \cup Prefixes(p) |-> IF q \in DOMAIN f THEN f[q] ELSE Dir]

\* fs::copy / symlink: one new entry at p (replacing a file that is there)
PutNode(f, p, n) == [q \in DOMAIN f \cup {p} |-> IF q = p THEN n ELSE f[q]]

\* the tree below p, as relative path |-> node
Subtree(f, p) ==
    [r \in {SubSeq(q, Len(p) + 1, Len(q)) : q \in {x \in DOMAIN f : IsPrefix(p, x) /\ x # p}}
        |-> f[p \o r]]

\* f with the tree t (relative path |-> node) written below p, p a directory
Graft(f, p, t) ==
    [q \in DOMAIN f \cup {p} \cup {p \o r : r \in DOMAIN t} |->
        IF q = p THEN Dir
        ELSE IF IsPrefix(p, q) /\ SubSeq(q, Len(p) + 1, Len(q)) \in DOMAIN t
             THEN t[SubSeq(q, Len(p) + 1, Len(q))]
             ELSE f[q]]

----------------------------------------------------------------------------
(* Inputs: the repository definitions and the file system process_all      *)
(* starts from.                                                            *)

RepoA == <<"a">>

RepoB == <<"b">>

NoGit == <<"nogit">>

Gone == <<"gone">>

Pub == <<"pub">>

\* /a and /b are working trees, /nogit is a directory without .git, /gone does
\* not exist; /pub holds an earlier deployment, /b/dist an earlier build.
InitFs ==
    MkFs({ <<RepoA, Dir>>, <<Join(RepoA, ".git"), Dir>>,
           <<RepoB, Dir>>, <<Join(RepoB, ".git"), Dir>>,
           <<Join(RepoB, "dist"), Dir>>,
           <<RepoB \o <<"dist", "index.html">>, Node("file", "v0")>>,
           <<NoGit, Dir>>,
           <<Pub, Dir>>,
           <<Join(Pub, "index.html"), Node("file", "v0")>>,
           <<Join(Pub, "old.txt"), Node("file", "stale")>> })

Defs ==
    { RepoDefinition(RepoA, None),
      RepoDefinition(RepoA, Some(Pub)),
      RepoDefinition(RepoB, Some(Pub)),
      RepoDefinition(RepoB, Some(Join(RepoB, "dist"))),
      RepoDefinition(NoGit, Some(Pub)),
      RepoDefinition(Gone, None) }

Batches == UNION {[1..n -> Defs] : n \in 0..MaxRepos}

\* what the external commands can print
\* a byte that is not valid UTF-8, and the character from_utf8_lossy puts for it
BadByte == "<0xff>"

Replacement == "<U+FFFD>"

\* git ends what it writes to stderr with a newline
Stderrs == {<<"fatal: unable to access remote", "\n">>, <<"fatal: ", BadByte, "\n">>}

PullStdouts == {<<"Updating 1a2b..3c4d", "\n">>}

IoErrors == {<<"os error">>}

----------------------------------------------------------------------------
(* Reporting (Logger).                                                     *)

\* mutant of LogIf: the line is logged whatever verbose is
LogAlways(cond, ls, msg) == Append(ls, msg)

\* Logger::log_line, called under `if self.verbose`
LogIf(cond, ls, msg) == IF cond THEN Append(ls, msg) ELSE ls

\* Logger::log_error
LogError(ls, msg) == Append(ls, <<"ERROR: ">> \o msg)

\* the header process_single logs before validating
SingleHeader(v, ls, repo) ==
    IF ~v THEN ls
    ELSE ls \o << <<"==========">>,
                  IF IsSome(repo.deploy_target)
                  THEN <<"Procesando repositorio con build: ">> \o repo.repo_path
                           \o <<" -> ">> \o repo.deploy_target[2]
                  ELSE <<"Procesando repositorio: ">> \o repo.repo_path,
                  <<"==========">> >>

----------------------------------------------------------------------------
(* State.                                                                  *)

\* no build has run for the current repository
NoSnapshot == MkFs({})

\* Settings { mode, stop_on_error, continuous_mode, verbose, sync_interval, .. },
\* sync_interval at its default of 60 seconds
Settings(mode, stop, cont, verb) ==
    [mode |-> mode, stop_on_error |-> stop, continuous_mode |-> cont, verbose |-> verb,
     sync_interval |-> 60]

\* Settings::default
DefaultSettings == Settings("production", TRUE, TRUE, TRUE)

\* no function is called on its own
NoCall ==
    /\ call = "none"
    /\ args = [fn |-> "none"]
    /\ value = None

Running == [status |-> "running", count |-> 0, head |-> <<>>, details |-> <<>>]

\* InputMode::Normal
Normal == [mode |-> "Normal"]

\* the repository manager is not running
NoManager ==
    /\ mpc = "idle"
    /\ input_mode = Normal
    /\ input = <<>>
    /\ repos = <<>>
    /\ list_state = None
    /\ message = None
    /\ written = None
    /\ key = "none"

Init ==
    /\ repo_defs \in Batches
    /\ verbose \in BOOLEAN
    /\ pc = "start"
    /\ idx = 0
    /\ errors = <<>>
    /\ ret = None
    /\ result = Running
    /\ branch = <<>>
    /\ behind = -1
    /\ fs = InitFs
    /\ stack = <<>>
    /\ ops = <<>>
    /\ returned = <<>>
    /\ after_build = NoSnapshot
    /\ lines = <<>>
    /\ platform = "unknown"
    /\ dpc = "direct"
    /\ cycle = 0
    /\ settings = Settings("production", TRUE, FALSE, verbose)
    /\ settings_file = Some(settings)
    /\ repos_file = None
    /\ cycles = <<>>
    /\ looping = FALSE
    /\ NoCall
    /\ NoManager

\* the repository the for loop is at
Cur == repo_defs[idx]

\* an entry of ops: the operation, its argument, what the environment answered
\* (out) and whether the operation's Result was Ok (ok)
Op(name, arg, out, ok) == [op |-> name, arg |-> arg, out |-> out, ok |-> ok]

\* an entry of ops for a git command, with the bytes it wrote to stderr
OpErr(name, arg, out, ok, stderr) ==
    [op |-> name, arg |-> arg, out |-> out, ok |-> ok, stderr |-> stderr]

\* mutant of Fail: the error is kept but the pipeline goes on to the build
FailKeepGoing(msg) ==
    /\ ret' = Err(msg)
    /\ pc' = "build"

\* process_single returns early with Err(msg) (the ? operator)
Fail(msg) ==
    /\ ret' = Err(msg)
    /\ pc' = "repo_end"

----------------------------------------------------------------------------
(* GitRepo (src/src/git.rs).  A command outcome is what Command::output    *)
(* gives: whether the process started, its exit status, stdout, stderr.    *)

Output(started, success, out, err) ==
    [started |-> started, success |-> success, stdout |-> out, stderr |-> err]

NotStarted == Output(FALSE, FALSE, <<>>, <<>>)

\* how a command ended
OutClass(o) == IF ~o.started THEN "spawn" ELSE IF o.success THEN "exit0" ELSE "exit1"

IsSpace(t) == t \in {" ", "\n"}

RECURSIVE TrimStart(_)
TrimStart(s) == IF s # <<>> /\ IsSpace(Head(s)) THEN TrimStart(Tail(s)) ELSE s

RECURSIVE TrimEnd(_)
TrimEnd(s) ==
    IF s # <<>> /\ IsSpace(s[Len(s)]) THEN TrimEnd(SubSeq(s, 1, Len(s) - 1)) ELSE s

\* str::trim
Trim(s) == TrimEnd(TrimStart(s))

\* str::replace(piece, "")
Remove(s, piece) == SelectSeq(s, LAMBDA t : t # piece)

DigitOf(t) == CHOOSE n \in 0..9 : ToString(n) = t

IsDigit(t) == \E n \in 0..9 : ToString(n) = t

RECURSIVE Decimal(_)
Decimal(s) ==
    IF s = <<>> THEN 0
    ELSE 10 * Decimal(SubSeq(s, 1, Len(s) - 1)) + DigitOf(s[Len(s)])

\* str::parse::<usize>: the number, or -1 for a parse error
ParseUsize(s) ==
    IF s # <<>> /\ \A k \in 1..Len(s) : IsDigit(s[k]) THEN Decimal(s) ELSE -1

\* String::from_utf8_lossy(bytes).to_string()
FromUtf8Lossy(bytes) ==
    [k \in 1..Len(bytes) |-> IF bytes[k] = BadByte THEN Replacement ELSE bytes[k]]

FetchOutcomes ==
    {NotStarted, Output(TRUE, TRUE, <<>>, <<>>)}
        \cup {Output(TRUE, FALSE, <<>>, e) : e \in Stderrs}

\* mutant of git_fetch: the standard-error text is trimmed
git_fetch_trimmed(o) ==
    IF ~o.started THEN Err(<<"No se pudo ejecutar 'git fetch': ">> \o <<"os error">>)
    ELSE IF ~o.success THEN Err(Trim(FromUtf8Lossy(o.stderr)))
    ELSE Ok

\* GitRepo::fetch
git_fetch(o) ==
    IF ~o.started THEN Err(<<"No se pudo ejecutar 'git fetch': ">> \o <<"os error">>)
    ELSE IF ~o.success THEN Err(FromUtf8Lossy(o.stderr))
    ELSE Ok

OriginPrefix == "refs/remotes/origin/"

\* the branch the remote HEAD of a repository points to: every remote has its own
HeadOf(repo_path) == IF repo_path = RepoB THEN "trunk" ELSE "dev"

SymbolicRefOutcomes(repo_path) ==
    { NotStarted,
      Output(TRUE, FALSE, <<>>, <<"fatal: ref refs/remotes/origin/HEAD is not a symbolic ref">>),
      Output(TRUE, TRUE, <<OriginPrefix, HeadOf(repo_path), "\n">>, <<>>) }

RevParseOutcomes ==
    { NotStarted,
      Output(TRUE, FALSE, <<>>, <<"fatal: Needed a single revision">>),
      Output(TRUE, TRUE, <<"3c4d", "\n">>, <<>>) }

\* mutant of get_default_branch: the name read from the symbolic HEAD is
\* returned without looking whether it is empty
get_default_branch_unchecked(sym, rp) ==
    LET default_branch == Remove(Trim(sym.stdout), OriginPrefix)
        main_exists == IF rp.started THEN rp.success ELSE FALSE
    IN  IF sym.started THEN default_branch
        ELSE IF main_exists THEN <<"main">>
        ELSE <<"master">>

\* GitRepo::get_default_branch
get_default_branch(sym, rp) ==
    LET default_branch == Remove(Trim(sym.stdout), OriginPrefix)
        main_exists == IF rp.started THEN rp.success ELSE FALSE
    IN  IF sym.started /\ default_branch # <<>> THEN default_branch
        ELSE IF main_exists THEN <<"main">>
        ELSE <<"master">>

RevListOutcomes ==
    {NotStarted}
        \cup {Output(TRUE, TRUE, <<ToString(n), "\n">>, <<>>) : n \in 0..MaxBehind}
        \cup {Output(TRUE, FALSE, <<>>, <<"fatal: bad revision">>)}

\* how `git rev-list --count` ended and whether its output is a number
RevListClass(o) ==
    IF ~o.started THEN "spawn"
    ELSE IF ParseUsize(Trim(o.stdout)) # -1 THEN OutClass(o)
    ELSE IF o.success THEN "exit0 unparsable"
    ELSE "exit1 unparsable"

\* mutant of count_commits_behind: a parse error is returned as an error
count_commits_behind_strict(o) ==
    IF ~o.started
    THEN Err(<<"No se pudo comprobar el estado de Git: ">> \o <<"os error">>)
    ELSE LET count == ParseUsize(Trim(o.stdout))
         IN  IF count = -1 THEN Err(<<"invalid digit found in string">>) ELSE <<"ok", count>>

\* GitRepo::count_commits_behind
count_commits_behind(o) ==
    IF ~o.started
    THEN Err(<<"No se pudo comprobar el estado de Git: ">> \o <<"os error">>)
    ELSE LET count == ParseUsize(Trim(o.stdout))
         IN  <<"ok", IF count = -1 THEN 0 ELSE count>>

PullOutcomes ==
    {NotStarted}
        \cup {Output(TRUE, TRUE, out, <<>>) : out \in PullStdouts}
        \cup {Output(TRUE, FALSE, <<>>, e) : e \in Stderrs}

\* GitRepo::pull
git_pull(o) ==
    IF ~o.started THEN Err(<<"No se pudo ejecutar 'git pull': ">> \o <<"os error">>)
    ELSE IF o.success THEN <<"ok", FromUtf8Lossy(o.stdout)>>
    ELSE Err(FromUtf8Lossy(o.stderr))

----------------------------------------------------------------------------
(* RepoProcessor (src/src/processor.rs).                                   *)

\* mutant of validate_repo: the .git marker is not looked for
validate_repo_no_marker(f, repo_path) ==
    IF ~Exists(f, repo_path)
    THEN Err(<<"La ruta no existe: ">> \o repo_path)
    ELSE Ok

\* RepoProcessor::validate_repo
validate_repo(f, repo_path) ==
    IF ~Exists(f, repo_path)
    THEN Err(<<"La ruta no existe: ">> \o repo_path)
    ELSE IF ~Exists(f, Join(repo_path, ".git"))
    THEN Err(<<"El directorio no es un repositorio Git valido: ">> \o repo_path)
    ELSE Ok

\* mutant of NeedsPull: pull whatever the count
NeedsPullAlways(count) == TRUE

\* mutant of NeedsPull: never pull
NeedsPullNever(count) == FALSE

\* check_and_pull's match on the count: Ok(0) is the up-to-date arm
NeedsPull(count) == count # 0

\* mutant of ShouldDeploy: a quiet processor does not deploy
ShouldDeployWhenVerbose(repo) == verbose /\ IsSome(repo.deploy_target)

\* mutant of ShouldDeploy: the deploy target is ignored
ShouldDeployNever(repo) == FALSE

\* process_single's `if let Some(target) = &repo.deploy_target`
ShouldDeploy(repo) == IsSome(repo.deploy_target)

\* mutant of process_all_result: the accumulated errors are dropped
process_all_result_ok(errs) ==
    [status |-> "ok", count |-> 0, head |-> <<>>, details |-> <<>>]

\* the value process_all returns once the loop is over
process_all_result(errs) ==
    IF errs = <<>>
    THEN [status |-> "ok", count |-> 0, head |-> <<>>, details |-> <<>>]
    ELSE [status |-> "err",
          count |-> Len(errs),
          head |-> <<" repositorios presentaron errores durante la sincronizacion:">>,
          details |-> [k \in 1..Len(errs) |->
                          <<"- ">> \o errs[k][1] \o <<" => ">> \o errs[k][2]]]

\* mutant of EmptyConfigResult: an empty list is a success
EmptyConfigSuccess ==
    [status |-> "ok", count |-> 0, head |-> <<>>, details |-> <<>>]

\* process_all's empty-list return
EmptyConfigResult ==
    [status |-> "err", count |-> 0,
     head |-> <<"No hay repositorios configurados">>, details |-> <<>>]

\* mutant of push_error: only the first failure of a batch is kept
push_error_first_only(errs, repo, r) ==
    IF IsErr(r) /\ errs = <<>> THEN Append(errs, <<repo.repo_path, r[2]>>) ELSE errs

\* process_all's Err arm: errors.push((repo.repo_path.clone(), err.clone()))
push_error(errs, repo, r) ==
    IF IsErr(r) THEN Append(errs, <<repo.repo_path, r[2]>>) ELSE errs

\* process_all up to the first external call
ProcessAllBegin ==
    /\ pc = "start"
    /\ IF repo_defs = <<>>
       THEN /\ lines' = lines \o
                  << <<"No se encontraron repositorios en el archivo de configuracion.">>,
                     <<"Agregue las rutas de los repositorios, una por linea.">> >>
            /\ result' = EmptyConfigResult
            /\ pc' = "done"
            /\ UNCHANGED <<idx, errors>>
       ELSE /\ lines' = SingleHeader(verbose,
                            LogIf(verbose, lines,
                                  <<"Se analizaran ", ToString(Len(repo_defs)), " repositorios">>),
                            repo_defs[1])
            /\ idx' = 1
            /\ errors' = <<>>
            /\ pc' = "validate"
            /\ UNCHANGED result
    /\ UNCHANGED <<xvars, platform, repo_defs, verbose, ret, branch, behind,
                   fs, stack, ops, returned, after_build>>

\* validate_repo: two Path::exists calls
ValidateRepo ==
    /\ pc = "validate"
    /\ LET r == validate_repo(fs, Cur.repo_path)
       IN  /\ ops' = Append(ops, Op("validate", Cur.repo_path,
                                    IF IsOk(r) THEN "valid" ELSE "invalid", IsOk(r)))
           /\ IF IsErr(r)
              THEN /\ lines' = LogError(lines, r[2])
                   /\ Fail(r[2])
              ELSE /\ lines' = LogIf(verbose, lines, <<"Verificando el estado del remoto...">>)
                   /\ pc' = "fetch"
                   /\ UNCHANGED ret
    /\ UNCHANGED <<xvars, platform, repo_defs, verbose, idx, errors, result,
                   branch, behind, fs, stack,
                   returned, after_build>>

\* check_and_pull: `git fetch`
Fetch ==
    /\ pc = "fetch"
    /\ \E o \in FetchOutcomes :
         LET r == git_fetch(o)
             msg == <<"No se pudo ejecutar 'git fetch': ">> \o r[2]
         IN  /\ ops' = Append(ops, OpErr("fetch", Cur.repo_path, OutClass(o), IsOk(r),
                                         o.stderr))
             /\ IF IsErr(r)
                THEN /\ lines' = LogError(lines, msg)
                     /\ Fail(msg)
                ELSE /\ pc' = "branch"
                     /\ UNCHANGED <<ret, lines>>
    /\ UNCHANGED <<xvars, platform, repo_defs, verbose, idx, errors, result,
                   branch, behind, fs, stack,
                   returned, after_build>>

\* mutant of ResolveBranch: a branch resolved earlier is used again
ResolveBranchCached(prev, sym, rp) ==
    IF prev # <<>> THEN prev ELSE get_default_branch(sym, rp)

\* check_and_pull's `let branch = repo.get_default_branch()`; prev is what the
\* call before left in the model's variable
ResolveBranch(prev, sym, rp) == get_default_branch(sym, rp)

\* check_and_pull: get_default_branch (git symbolic-ref, then git rev-parse)
GetDefaultBranch ==
    /\ pc = "branch"
    /\ \E sym \in SymbolicRefOutcomes(Cur.repo_path), rp \in RevParseOutcomes :
         /\ branch' = ResolveBranch(branch, sym, rp)
         /\ ops' = Append(ops, Op("get_default_branch", Cur.repo_path, "done", TRUE))
         /\ lines' = LogIf(verbose, lines, <<"Se utilizara la rama: ">> \o branch')
    /\ pc' = "count"
    /\ UNCHANGED <<xvars, platform, repo_defs, verbose, idx, errors, ret,
                   result, behind, fs, stack,
                   returned, after_build>>

\* check_and_pull returned Ok: process_single goes on to the deploy target
SyncDone ==
    IF ShouldDeploy(Cur)
    THEN pc' = "build" /\ UNCHANGED ret
    ELSE pc' = "repo_end" /\ ret' = Ok

\* check_and_pull: count_commits_behind (git rev-list --count) and the match on it
CountCommitsBehind ==
    /\ pc = "count"
    /\ \E o \in RevListOutcomes :
         LET r == count_commits_behind(o)
         IN  /\ ops' = Append(ops, Op("count_commits_behind", branch, RevListClass(o), IsOk(r)))
             /\ IF IsErr(r)
                THEN LET msg == <<"No se pudo consultar el estado del repositorio: ">> \o r[2]
                     IN  /\ lines' = LogError(lines, msg)
                         /\ Fail(msg)
                         /\ UNCHANGED behind
                ELSE /\ behind' = r[2]
                     /\ IF NeedsPull(r[2])
                        THEN /\ lines' = LogIf(verbose, lines,
                                      <<"El remoto tiene ", ToString(r[2]),
                                        " confirmaciones nuevas. Aplicando cambios...">>)
                             /\ pc' = "pull"
                             /\ UNCHANGED ret
                        ELSE /\ lines' = LogIf(verbose, lines,
                                      <<"El repositorio ya esta actualizado.">>)
                             /\ SyncDone
    /\ UNCHANGED <<xvars, platform, repo_defs, verbose, idx, errors, result, branch, fs, stack,
                   returned, after_build>>

\* check_and_pull: `git pull origin <branch>`
Pull ==
    /\ pc = "pull"
    /\ \E o \in PullOutcomes :
         LET r == git_pull(o)
         IN  /\ ops' = Append(ops, OpErr("pull", branch, OutClass(o), IsOk(r), o.stderr))
             /\ IF IsErr(r)
                THEN LET msg == <<"No se pudo ejecutar 'git pull': ">> \o r[2]
                     IN  /\ lines' = LogError(lines, msg)
                         /\ Fail(msg)
                ELSE /\ lines' = LogIf(verbose, lines,
                              <<"Resultado de 'git pull':\n">> \o Trim(r[2]))
                     /\ SyncDone
    /\ UNCHANGED <<xvars, platform, repo_defs, verbose, idx, errors, result,
                   branch, behind, fs, stack,
                   returned, after_build>>

\* process_single returned: process_all's match arm, then the next repository
\* or the end of the loop
RepoEnd ==
    /\ pc = "repo_end"
    /\ errors' = push_error(errors, Cur, ret)
    /\ returned' = Append(returned, [idx |-> idx, repo |-> Cur, ret |-> ret])
    /\ LET arm == IF IsErr(ret)
                  THEN << <<"Repositorio omitido ">> \o Cur.repo_path
                             \o <<" debido a un error: ">> \o ret[2] >>
                  ELSE LogIf(verbose, <<>>, <<"\n">>)
       IN  IF idx < Len(repo_defs)
           THEN /\ idx' = idx + 1
                /\ pc' = "validate"
                /\ lines' = SingleHeader(verbose, arm, repo_defs[idx + 1])
                /\ ret' = None
                /\ behind' = -1
                /\ ops' = <<>>
                /\ after_build' = NoSnapshot
                /\ UNCHANGED <<result, branch>>
           ELSE /\ pc' = "done"
                /\ lines' = LogIf(verbose, lines \o arm,
                                  <<"Todos los repositorios fueron procesados.">>)
                /\ result' = process_all_result(errors')
                /\ UNCHANGED <<idx, ret, branch, behind, ops, after_build>>
    /\ UNCHANGED <<xvars, platform, repo_defs, verbose, fs, stack>>

----------------------------------------------------------------------------
(* build_and_deploy and copy_recursive.                                    *)

\* what `npm run build` can leave at <repo>/dist
TreeSmall ==
    MkFs({ << <<"index.html">>, Node("file", "v1") >>,
           << <<"build.sock">>, Node("other", "") >> })

TreeFull ==
    MkFs({ << <<"assets">>, Dir >>,
           << <<"assets", "app.js">>, Node("file", "v2") >>,
           << <<"latest">>, Node("link", "assets/app.js") >> })

EmptyTree == MkFs({})

Effect(k, t) == [kind |-> k, tree |-> t]

\* the build leaves dist as it is (missing, or what an earlier build wrote),
\* writes a regular file named dist, or writes a fresh dist directory
BuildEffects ==
    {Effect("keep", EmptyTree), Effect("file", EmptyTree)}
        \cup {Effect("tree", t) : t \in {TreeSmall, TreeFull}}

\* Command::status of `npm run build`: started, ExitStatus::code(), effect on dist
BuildOutcome(started, code, effect) == [started |-> started, code |-> code, effect |-> effect]

BuildOutcomes ==
    {BuildOutcome(FALSE, None, Effect("keep", EmptyTree))}
        \cup {BuildOutcome(TRUE, Some(0), e) : e \in BuildEffects}
        \cup {BuildOutcome(TRUE, Some(1), Effect("keep", EmptyTree))}
        \cup {BuildOutcome(TRUE, None, Effect("keep", EmptyTree))}

\* the file system after the build tool ran in repo_path
ApplyBuild(f, repo_path, e) ==
    LET dist == Join(repo_path, "dist")
    IN  CASE e.kind = "keep" -> f
          [] e.kind = "file" -> PutNode(RemoveDirAll(f, dist), dist, Node("file", "v1"))
          [] e.kind = "tree" -> Graft(RemoveDirAll(f, dist), dist, e.tree)

\* ExitStatus::success
StatusSuccess(code) == IsSome(code) /\ code[2] = 0

\* mutant of build_status: the exit status is not looked at
build_status_ignore_exit(o) ==
    IF ~o.started
    THEN Err(<<"No se pudo ejecutar 'npm run build': ">> \o <<"os error">>)
    ELSE Ok

\* build_and_deploy's check of the build's exit status
build_status(o) ==
    IF ~o.started
    THEN Err(<<"No se pudo ejecutar 'npm run build': ">> \o <<"os error">>)
    ELSE IF ~StatusSuccess(o.code)
    THEN Err(<<"'npm run build' finalizo con estado ",
               ToString(IF IsSome(o.code) THEN o.code[2] ELSE -1)>>)
    ELSE Ok

\* build_and_deploy's `dist_path.exists()` check
dist_check(f, dist_path) ==
    IF ~Exists(f, dist_path)
    THEN Err(<<"No se encontro el directorio de salida en ">> \o dist_path)
    ELSE Ok

\* mutant of MustClear: an existing destination is kept
MustClearNever(f, destination) == FALSE

\* build_and_deploy's `if destination_path.exists()` before remove_dir_all
MustClear(f, destination) == Exists(f, destination)

\* fs::remove_dir_all refuses a root that is not a directory
CanRemoveDirAll(f, p) == IsDir(f, p)

Dest == Cur.deploy_target[2]

DistPath == Join(Cur.repo_path, "dist")

\* how `npm run build` ended
BuildClass(o) ==
    IF ~o.started THEN "spawn"
    ELSE IF ~IsSome(o.code) THEN "signal"
    ELSE IF o.code[2] = 0 THEN "exit0"
    ELSE "exit1"

\* build_and_deploy: `npm run build`
Build ==
    /\ pc = "build"
    /\ lines' = LogIf(verbose, lines, <<"Ejecutando 'npm run build'...">>)
    /\ \E o \in BuildOutcomes :
         /\ fs' = ApplyBuild(fs, Cur.repo_path, o.effect)
         /\ after_build' = fs'
         /\ LET r == build_status(o)
            IN  /\ ops' = Append(ops, Op("build", Cur.repo_path, BuildClass(o), IsOk(r)))
                /\ IF IsErr(r)
                   THEN Fail(r[2])
                   ELSE pc' = "dist_check" /\ UNCHANGED ret
    /\ UNCHANGED <<xvars, platform, repo_defs, verbose, idx, errors, result,
                   branch, behind, stack, returned>>

\* build_and_deploy: dist_path.exists(), then destination_path.exists()
DistCheck ==
    /\ pc = "dist_check"
    /\ LET r == dist_check(fs, DistPath)
       IN  IF IsErr(r)
           THEN /\ ops' = Append(ops, Op("dist_exists", DistPath, "missing", FALSE))
                /\ Fail(r[2])
           ELSE /\ ops' = ops \o
                      << Op("dist_exists", DistPath, "exists", TRUE),
                         Op("dest_exists", Dest,
                            IF Exists(fs, Dest) THEN "exists" ELSE "missing", TRUE) >>
                /\ pc' = IF MustClear(fs, Dest) THEN "clear" ELSE "create"
                /\ UNCHANGED ret
    /\ UNCHANGED <<xvars, platform, repo_defs, verbose, idx, errors, result,
                   branch, behind, fs, stack,
                   returned, after_build, lines>>

\* build_and_deploy: fs::remove_dir_all(destination)
ClearDest ==
    /\ pc = "clear"
    /\ \/ /\ CanRemoveDirAll(fs, Dest)
          /\ ops' = Append(ops, Op("remove_dir_all", Dest, "done", TRUE))
          /\ fs' = RemoveDirAll(fs, Dest)
          /\ pc' = "create"
          /\ UNCHANGED ret
       \/ /\ ops' = Append(ops, Op("remove_dir_all", Dest, "io error", FALSE))
          /\ \E e \in IoErrors :
               Fail(<<"No se pudo limpiar el destino ">> \o Dest \o <<": ">> \o e)
          /\ UNCHANGED fs
    /\ UNCHANGED <<xvars, platform, repo_defs, verbose, idx, errors, result,
                   branch, behind, stack,
                   returned, after_build, lines>>

Frame(src, dst) == [src |-> src, dst |-> dst, opened |-> FALSE, pending |-> {}]

\* build_and_deploy: fs::create_dir_all(destination), then the call of copy_recursive
CreateDest ==
    /\ pc = "create"
    /\ \/ /\ CanCreateDirAll(fs, Dest)
          /\ ops' = Append(ops, Op("create_dir_all", Dest, "done", TRUE))
          /\ fs' = CreateDirAll(fs, Dest)
          /\ stack' = <<Frame(DistPath, Dest)>>
          /\ pc' = "copy"
          /\ UNCHANGED ret
       \/ /\ ops' = Append(ops, Op("create_dir_all", Dest, "io error", FALSE))
          /\ \E e \in IoErrors :
               Fail(<<"No se pudo crear el directorio destino ">> \o Dest \o <<": ">> \o e)
          /\ UNCHANGED <<fs, stack>>
    /\ UNCHANGED <<xvars, platform, repo_defs, verbose, idx, errors, result, branch, behind,
                   returned, after_build, lines>>

\* copy_recursive calls whose loop is over return Ok to their caller
RECURSIVE Unwind(_)
Unwind(st) ==
    IF st # <<>> /\ st[Len(st)].opened /\ st[Len(st)].pending = {}
    THEN Unwind(SubSeq(st, 1, Len(st) - 1))
    ELSE st

\* mutant of CopyContinue: build_and_deploy returns Ok without waiting for the
\* copy_recursive calls that are still active
CopyContinueDetached(st) ==
    /\ stack' = Unwind(st)
    /\ lines' = LogIf(verbose, lines, <<"Archivos desplegados en ">> \o Dest)
    /\ ret' = Ok
    /\ pc' = "repo_end"

\* the state after a step of copy_recursive left the call stack st: when the
\* outermost call returned, build_and_deploy returns Ok
CopyContinue(st) ==
    /\ stack' = Unwind(st)
    /\ IF Unwind(st) = <<>>
       THEN /\ lines' = LogIf(verbose, lines, <<"Archivos desplegados en ">> \o Dest)
            /\ ret' = Ok
            /\ pc' = "repo_end"
       ELSE UNCHANGED <<lines, ret, pc>>

\* mutant of CopyFail: the error of a copy step is dropped and the publish ends Ok
CopyFailIgnored(msg) ==
    /\ ret' = Ok
    /\ pc' = "repo_end"
    /\ stack' = <<>>
    /\ UNCHANGED lines

\* mutant of CopyFail: the error is noted and the copy goes on
CopyFailGoOn(msg) ==
    /\ ret' = Err(msg)
    /\ UNCHANGED <<pc, stack, lines>>

\* a step of copy_recursive failed: every active call returns the error
CopyFail(msg) ==
    /\ Fail(msg)
    /\ stack' = <<>>
    /\ UNCHANGED lines

Top == stack[Len(stack)]

WithTop(fr) == [stack EXCEPT ![Len(stack)] = fr]

\* copy_recursive: `if source.is_dir()` and fs::read_dir(source)
CopyOpen ==
    /\ pc = "copy"
    /\ ~Top.opened
    /\ IF ~IsDir(fs, Top.src)
       THEN /\ CopyContinue(SubSeq(stack, 1, Len(stack) - 1))
            /\ UNCHANGED ops
       ELSE \/ /\ ops' = Append(ops, Op("read_dir", Top.src, "done", TRUE))
               /\ CopyContinue(WithTop([Top EXCEPT !.opened = TRUE,
                                                   !.pending = ReadDir(fs, Top.src)]))
            \/ /\ ops' = Append(ops, Op("read_dir", Top.src, "io error", FALSE))
               /\ \E e \in IoErrors :
                    CopyFail(<<"No se pudo leer el directorio ">> \o Top.src \o <<": ">> \o e)
    /\ UNCHANGED <<xvars, platform, repo_defs, verbose, idx, errors, result, branch, behind, fs,
                   returned, after_build>>

\* mutant of EntryAction: a symbolic link is copied like the file it points to
EntryActionFollowLinks(kind) ==
    CASE kind = "dir" -> "create_dir_all"
      [] kind = "file" -> "copy"
      [] kind = "link" -> "copy"
      [] OTHER -> "skip"

\* what copy_recursive does with one directory entry, by its file type
EntryAction(kind) ==
    CASE kind = "dir" -> "create_dir_all"
      [] kind = "file" -> "copy"
      [] kind = "link" -> "symlink"
      [] OTHER -> "skip"

\* the build targets the symlink branch can have been compiled for: the target
\* is fixed per build, and is settled the first time the code depends on it
Platforms == IF platform = "unknown" THEN {"unix", "other"} ELSE {platform}

\* copy_recursive: one entry of the directory being read
CopyEntry ==
    /\ pc = "copy"
    /\ Top.opened
    /\ \E n \in Top.pending :
         LET entry == Join(Top.src, n)
             dest_path == Join(Top.dst, n)
             rest == WithTop([Top EXCEPT !.pending = @ \ {n}])
             act == IF entry \in DOMAIN fs THEN EntryAction(fs[entry].kind) ELSE "gone"
         IN  \/ /\ ops' = Append(ops, Op("read_entry", Top.src, "io error", FALSE))
                /\ \E e \in IoErrors :
                     CopyFail(<<"No se pudo procesar una entrada en ">>
                                  \o Top.src \o <<": ">> \o e)
                /\ UNCHANGED <<fs, platform>>
             \/ CASE act = "create_dir_all" ->
                   /\ UNCHANGED platform
                   /\ \/ /\ CanCreateDirAll(fs, dest_path)
                         /\ ops' = Append(ops, Op(act, dest_path, "done", TRUE))
                         /\ fs' = CreateDirAll(fs, dest_path)
                         /\ CopyContinue(Append(rest, Frame(entry, dest_path)))
                      \/ /\ ops' = Append(ops, Op(act, dest_path, "io error", FALSE))
                         /\ \E e \in IoErrors :
                              CopyFail(<<"No se pudo crear el directorio ">>
                                           \o dest_path \o <<": ">> \o e)
                         /\ UNCHANGED fs
               [] act = "copy" ->
                   /\ UNCHANGED platform
                   /\ \/ /\ ~IsDir(fs, dest_path)
                         /\ ops' = Append(ops, Op(act, dest_path, "done", TRUE))
                         /\ fs' = PutNode(fs, dest_path, fs[entry])
                         /\ CopyContinue(rest)
                      \/ /\ ops' = Append(ops, Op(act, dest_path, "io error", FALSE))
                         /\ \E e \in IoErrors :
                              CopyFail(<<"No se pudo copiar ">> \o entry \o <<" a ">>
                                           \o dest_path \o <<": ">> \o e)
                         /\ UNCHANGED fs
               [] act = "symlink" ->
                   \E pf \in Platforms :
                     /\ platform' = pf
                     /\ IF pf = "unix"
                        THEN \/ /\ dest_path \notin DOMAIN fs
                                /\ ops' = Append(ops, Op(act, dest_path, "done", TRUE))
                                /\ fs' = PutNode(fs, dest_path, Node("link", fs[entry].data))
                                /\ CopyContinue(rest)
                             \/ /\ ops' = Append(ops, Op("read_link", entry, "io error", FALSE))
                                /\ \E e \in IoErrors :
                                     CopyFail(<<"No se pudo leer el enlace simbolico ">>
                                                  \o entry \o <<": ">> \o e)
                                /\ UNCHANGED fs
                             \/ /\ ops' = Append(ops, Op(act, dest_path, "io error", FALSE))
                                /\ \E e \in IoErrors :
                                     CopyFail(<<"No se pudo recrear el enlace simbolico ">>
                                                  \o dest_path \o <<": ">> \o e)
                                /\ UNCHANGED fs
                        ELSE /\ ops' = Append(ops, Op("symlink_unsupported", entry,
                                                      "unsupported", FALSE))
                             /\ CopyFail(<<"Los enlaces simbolicos no son compatibles",
                                           " en este sistema: ">> \o entry)
                             /\ UNCHANGED fs
               [] act = "skip" ->
                   /\ CopyContinue(rest)
                   /\ UNCHANGED <<ops, fs, platform>>
               [] act = "gone" ->
                   /\ ops' = Append(ops, Op("file_type", entry, "io error", FALSE))
                   /\ CopyFail(<<"No se pudo determinar el tipo de ">> \o entry
                                   \o <<": ">> \o <<"os error">>)
                   /\ UNCHANGED <<fs, platform>>
    /\ UNCHANGED <<xvars, repo_defs, verbose, idx, errors, result, branch, behind,
                   returned, after_build>>

----------------------------------------------------------------------------

Next ==
    \/ ProcessAllBegin
    \/ ValidateRepo
    \/ Fetch
    \/ GetDefaultBranch
    \/ CountCommitsBehind
    \/ Pull
    \/ Build
    \/ DistCheck
    \/ ClearDest
    \/ CreateDest
    \/ CopyOpen
    \/ CopyEntry
    \/ RepoEnd

Spec == Init /\ [][Next]_vars

----------------------------------------------------------------------------
(* Config (src/src/config.rs).  A line is the sequence of its tokens: white *)
(* space, "#", "=>" and the components of a path; a file is the sequence of *)
(* its lines.                                                              *)

\* the place of the first "=>" of s, 0 if there is none
FindArrow(s) ==
    IF \E i \in 1..Len(s) : s[i] = "=>"
    THEN CHOOSE i \in 1..Len(s) : s[i] = "=>" /\ \A j \in 1..(i - 1) : s[j] # "=>"
    ELSE 0

\* mutant of from_line: the two sides of the "=>" are kept as they are
from_line_untrimmed(line) ==
    LET trimmed == Trim(line)
        i == FindArrow(trimmed)
        source == SubSeq(trimmed, 1, i - 1)
        target == SubSeq(trimmed, i + 1, Len(trimmed))
    IN  IF trimmed = <<>> \/ Head(trimmed) = "#" THEN None
        ELSE IF i # 0
        THEN IF source = <<>> THEN None
             ELSE Some(RepoDefinition(source, IF target = <<>> THEN None ELSE Some(target)))
        ELSE Some(RepoDefinition(trimmed, None))

\* RepoDefinition::from_line
from_line(line) ==
    LET trimmed == Trim(line)
        i == FindArrow(trimmed)
        source == Trim(SubSeq(trimmed, 1, i - 1))
        target == Trim(SubSeq(trimmed, i + 1, Len(trimmed)))
    IN  IF trimmed = <<>> \/ Head(trimmed) = "#" THEN None
        ELSE IF i # 0
        THEN IF source = <<>> THEN None
             ELSE Some(RepoDefinition(source, IF target = <<>> THEN None ELSE Some(target)))
        ELSE Some(RepoDefinition(trimmed, None))

\* mutant of read_repos: the definitions come out last line first
RECURSIVE read_repos_reversed(_)
read_repos_reversed(file) ==
    IF file = <<>> THEN <<>>
    ELSE LET d == from_line(Head(file))
         IN  read_repos_reversed(Tail(file)) \o (IF IsSome(d) THEN <<d[2]>> ELSE <<>>)

\* Config::read_repos on a readable file: lines().filter_map(from_line).collect()
RECURSIVE read_repos(_)
read_repos(file) ==
    IF file = <<>> THEN <<>>
    ELSE LET d == from_line(Head(file))
         IN  (IF IsSome(d) THEN <<d[2]>> ELSE <<>>) \o read_repos(Tail(file))

\* the file ensure_repos_file writes when there is none: comments only
DefaultReposFile == << <<"#", " ", "repos">> >>


\* mutant of to_line: the deploy target is never written
to_line_source_only(d) == Trim(d.repo_path)

\* RepoDefinition::to_line
to_line(d) ==
    IF IsSome(d.deploy_target) /\ Trim(d.deploy_target[2]) # <<>>
    THEN Trim(d.repo_path) \o <<" ", "=>", " ">> \o Trim(d.deploy_target[2])
    ELSE Trim(d.repo_path)

\* the eight comment lines write_repos puts first; the fourth and the eighth
\* show the "source => target" format
WriteHeader ==
    << <<"#", " ", "lista">>,
       <<"#", " ", "ruta">>,
       <<"#", " ", "formato">>,
       <<"#", " ", " ", "a", " ", "=>", " ", "b">>,
       <<"#", " ", "nota">>,
       <<"#", " ", "ejemplos">>,
       <<"#", " ", " ", "a">>,
       <<"#", " ", " ", "a", " ", "=>", " ", "b">> >>

\* the content Config::write_repos writes: the header, then to_line of every
\* definition on a line of its own
write_repos(list) == WriteHeader \o [k \in 1..Len(list) |-> to_line(list[k])]

----------------------------------------------------------------------------
(* GitRepo's functions called on their own, on any command outcome.        *)

\* longest command output, in tokens
MaxOut == 3

SeqsUpTo(S, n) == UNION {[1..k -> S] : k \in 0..n}

\* what `git symbolic-ref refs/remotes/origin/HEAD` can do
SymbolicRefAny ==
    {NotStarted} \cup
        {Output(TRUE, ok, out, <<>>) :
            ok \in BOOLEAN, out \in SeqsUpTo({" ", "\n", OriginPrefix, "dev"}, MaxOut)}

\* what `git rev-list --count` can do
RevListAny ==
    {NotStarted} \cup
        {Output(TRUE, ok, out, <<>>) :
            ok \in BOOLEAN, out \in SeqsUpTo({" ", "\n", "0", "1", "x"}, MaxOut)}

\* longest line of a repository list, in tokens
MaxLine == 5

\* longest field of a definition that is not read from a line, in tokens
MaxField == 2

\* most lines of a repository list that is read on its own
MaxFileLines == 3

LineTokens == {" ", "#", "=>", "a", "b"}

\* any line of a repository list
Lines == SeqsUpTo(LineTokens, MaxLine)

\* any definition RepoDefinition::new builds, its source not blank
AnyDefs ==
    {RepoDefinition(p, t) :
        p \in {f \in SeqsUpTo(LineTokens, MaxField) : Trim(f) # <<>>},
        t \in {None} \cup {Some(f) : f \in SeqsUpTo(LineTokens, MaxField)}}

\* the definitions RepoManager::submit builds from one token of input each:
\* the input is trimmed, the source is not empty, an empty target is None
TuiDefs ==
    {RepoDefinition(<<p>>, t) :
        p \in LineTokens \ {" "},
        t \in {None} \cup {Some(<<f>>) : f \in LineTokens \ {" "}}}

\* lines of a list file: blank, comment, indented comment, bare path, both
\* fields, no source, no target
FileLines ==
    { <<>>, <<" ">>, <<"#", " ", "a">>, <<" ", "#", "a">>, <<"a">>, <<" ", "b", " ">>,
      <<"a", "=>", " ", "b">>, <<"=>", " ", "b">>, <<"a", " ", "=>">> }

FnArgs ==
    {[fn |-> "get_default_branch", sym |-> sym, rp |-> rp] :
        sym \in SymbolicRefAny, rp \in RevParseOutcomes}
    \cup {[fn |-> "count_commits_behind", o |-> o] : o \in RevListAny}
    \cup {[fn |-> "from_line", line |-> l] : l \in Lines}
    \cup {[fn |-> "to_line", d |-> d] : d \in AnyDefs}
    \cup {[fn |-> "write_repos", repos |-> r] : r \in SeqsUpTo(TuiDefs, MaxRepos)}
    \cup {[fn |-> "read_repos", file |-> f] : f \in SeqsUpTo(FileLines, MaxFileLines)}

\* process_all and run_daemon are not running
Idle ==
    /\ repo_defs = <<>>
    /\ verbose = FALSE
    /\ pc = "idle"
    /\ idx = 0
    /\ errors = <<>>
    /\ ret = None
    /\ result = Running
    /\ branch = <<>>
    /\ behind = -1
    /\ fs = InitFs
    /\ stack = <<>>
    /\ ops = <<>>
    /\ returned = <<>>
    /\ after_build = NoSnapshot
    /\ lines = <<>>
    /\ platform = "unknown"
    /\ dpc = "idle"
    /\ cycle = 0
    /\ settings = Settings("production", TRUE, FALSE, FALSE)
    /\ settings_file = Some(settings)
    /\ repos_file = None
    /\ cycles = <<>>
    /\ looping = FALSE
    /\ NoManager

FnInit ==
    /\ Idle
    /\ call = "none"
    /\ args \in FnArgs
    /\ value = None

\* the variables of process_all
pvars == <<repo_defs, verbose, pc, idx, errors, ret, result, branch, behind, fs, stack,
           ops, returned, after_build, lines, platform>>

GetDefaultBranchCall ==
    /\ call = "none"
    /\ args.fn = "get_default_branch"
    /\ call' = args.fn
    /\ value' = get_default_branch(args.sym, args.rp)
    /\ UNCHANGED <<args, pvars, dvars, mvars>>

CountCommitsBehindCall ==
    /\ call = "none"
    /\ args.fn = "count_commits_behind"
    /\ call' = args.fn
    /\ value' = count_commits_behind(args.o)
    /\ UNCHANGED <<args, pvars, dvars, mvars>>

\* RepoDefinition::from_line on a line of the list
FromLineCall ==
    /\ call = "none"
    /\ args.fn = "from_line"
    /\ call' = "from_line"
    /\ value' = [d |-> from_line(args.line)]
    /\ UNCHANGED <<args, pvars, dvars, mvars>>

\* to_line on the definition from_line gave (write_repos after read_repos)
ToLineOfParsed ==
    /\ call = "from_line"
    /\ IsSome(value.d)
    /\ call' = "from_line/to_line"
    /\ value' = [d |-> value.d, s |-> to_line(value.d[2])]
    /\ UNCHANGED <<args, pvars, dvars, mvars>>

\* from_line on the line to_line wrote
FromLineOfWritten ==
    /\ call = "from_line/to_line"
    /\ call' = "from_line/to_line/from_line"
    /\ value' = [d |-> value.d, s |-> value.s, d2 |-> from_line(value.s)]
    /\ UNCHANGED <<args, pvars, dvars, mvars>>

\* RepoDefinition::to_line on a definition
ToLineCall ==
    /\ call = "none"
    /\ args.fn = "to_line"
    /\ call' = "to_line"
    /\ value' = [s |-> to_line(args.d)]
    /\ UNCHANGED <<args, pvars, dvars, mvars>>

\* from_line on the line to_line gave
FromLineOfLine ==
    /\ call = "to_line"
    /\ call' = "to_line/from_line"
    /\ value' = [s |-> value.s, d |-> from_line(value.s)]
    /\ UNCHANGED <<args, pvars, dvars, mvars>>

\* Config::write_repos, the write succeeding
WriteReposCall ==
    /\ call = "none"
    /\ args.fn = "write_repos"
    /\ call' = "write_repos"
    /\ value' = [file |-> write_repos(args.repos)]
    /\ UNCHANGED <<args, pvars, dvars, mvars>>

\* Config::read_repos on the file write_repos wrote
ReadReposOfWritten ==
    /\ call = "write_repos"
    /\ call' = "write_repos/read_repos"
    /\ value' = [file |-> value.file, repos |-> read_repos(value.file)]
    /\ UNCHANGED <<args, pvars, dvars, mvars>>

\* Config::read_repos on a readable file
ReadReposCall ==
    /\ call = "none"
    /\ args.fn = "read_repos"
    /\ call' = "read_repos"
    /\ value' = [repos |-> read_repos(args.file)]
    /\ UNCHANGED <<args, pvars, dvars, mvars>>

FnNext ==
    \/ GetDefaultBranchCall
    \/ CountCommitsBehindCall
    \/ FromLineCall
    \/ ToLineOfParsed
    \/ FromLineOfWritten
    \/ ToLineCall
    \/ FromLineOfLine
    \/ WriteReposCall
    \/ ReadReposOfWritten
    \/ ReadReposCall

FnSpec == FnInit /\ [][FnNext]_vars

----------------------------------------------------------------------------
(* run_daemon and run_sync_cycle (src/src/main.rs).                        *)

\* most calls of run_sync_cycle in a behaviour
MaxCycles == 2

\* repository lists without a deploy target: comments only, a path that does
\* not exist, a working tree followed by an empty line
SyncFiles ==
    { DefaultReposFile,
      << <<"#", " ", "repos">>, <<"gone">> >>,
      << <<"a">>, <<>> >> }

\* a repository list of two working trees (the daemon starts with it; the
\* administrator's later changes are to one of SyncFiles)
PairFiles == { << <<"a">>, <<"b">> >> }

\* a repository list with a deploy target
DeployFiles == { << <<" ", "a", " ", "=>", " ", "pub", " ">> >> }

\* the settings st with a sync_interval of 5 seconds; the files of the model
\* that turn stop_on_error off have it
Quick(st) == [st EXCEPT !.sync_interval = 5]

\* what the administrator changes config.toml to while the daemon runs
SettingsEdits ==
    { Some(Settings("production", TRUE, FALSE, FALSE)),
      Some(Quick(Settings("production", FALSE, TRUE, FALSE))),
      <<"garbage">>,
      None }

\* what config.toml can hold: settings, or text that does not parse
SettingsFiles ==
    {Some(Settings("production", TRUE, cont, FALSE)) : cont \in BOOLEAN}
        \cup {Some(Quick(Settings("production", FALSE, cont, FALSE))) : cont \in BOOLEAN}
        \cup {Some(Settings("development", TRUE, TRUE, FALSE)), <<"garbage">>, None}

DaemonInit ==
    /\ repo_defs = <<>>
    /\ verbose = FALSE
    /\ pc = "idle"
    /\ idx = 0
    /\ errors = <<>>
    /\ ret = None
    /\ result = Running
    /\ branch = <<>>
    /\ behind = -1
    /\ fs = InitFs
    /\ stack = <<>>
    /\ ops = <<>>
    /\ returned = <<>>
    /\ after_build = NoSnapshot
    /\ lines = <<>>
    /\ platform = "unknown"
    /\ dpc = "start"
    /\ cycle = 0
    /\ settings = DefaultSettings
    /\ settings_file \in SettingsFiles
    /\ repos_file \in {None} \cup {Some(f) : f \in SyncFiles \cup PairFiles \cup DeployFiles}
    /\ cycles = <<>>
    /\ looping = FALSE
    /\ NoCall
    /\ NoManager

\* Settings::load_or_create once ensure_settings_file has run: the file's
\* settings, or the defaults with the mode interactive_init asked for
LoadOrCreate(file) ==
    IF IsSome(file) THEN {file[2]}
    ELSE IF file = None THEN {DefaultSettings}
    ELSE {[DefaultSettings EXCEPT !.mode = m] : m \in {"production", "development"}}

\* run_daemon up to its first run_sync_cycle
DaemonStart ==
    /\ dpc = "start"
    /\ \/ /\ dpc' = "exited"
          /\ UNCHANGED <<settings, settings_file, repos_file, looping>>
       \/ /\ repos_file = None
          /\ repos_file' = Some(DefaultReposFile)
          /\ settings_file' = IF settings_file = None THEN Some(DefaultSettings)
                              ELSE settings_file
          /\ dpc' = "returned"
          /\ UNCHANGED <<settings, looping>>
       \/ /\ repos_file # None
          /\ \E st \in LoadOrCreate(settings_file) :
               /\ settings' = st
               /\ settings_file' = Some(st)
               /\ looping' = (st.mode # "development" /\ st.continuous_mode)
               /\ dpc' = IF st.mode = "development" THEN "dev_local" ELSE "cycle"
          /\ UNCHANGED repos_file
    /\ UNCHANGED <<pvars, mvars, fvars, cycle, cycles>>

\* mutant of CycleRepos: the list of the previous cycle is used again
CycleReposCached(file, prev) == IF prev # <<>> THEN prev ELSE read_repos(file)

\* run_sync_cycle's `let repos = config.read_repos()`; prev is what the cycle
\* before processed
CycleRepos(file, prev) == read_repos(file)

\* run_sync_cycle up to the call of process_all
CycleBegin ==
    /\ dpc = "cycle"
    /\ cycle < MaxCycles
    /\ cycle' = cycle + 1
    /\ IF repos_file = None
       THEN /\ dpc' = "panicked"
            /\ UNCHANGED <<pvars, cycles>>
       ELSE /\ dpc' = "processing"
            /\ repo_defs' = CycleRepos(repos_file[2], repo_defs)
            /\ verbose' = settings.verbose
            /\ pc' = "start"
            /\ idx' = 0
            /\ errors' = <<>>
            /\ ret' = None
            /\ result' = Running
            /\ behind' = -1
            /\ stack' = <<>>
            /\ ops' = <<>>
            /\ returned' = <<>>
            /\ after_build' = NoSnapshot
            /\ lines' = <<>>
            /\ cycles' = Append(cycles, [read |-> repos_file[2], defs |-> repo_defs',
                                         errors |-> <<>>, status |-> "running",
                                         slept |-> 0])
            /\ UNCHANGED <<fs, platform, branch>>
    /\ UNCHANGED <<mvars, fvars, settings, settings_file, repos_file, looping>>

\* mutant of StopsOnError: an error never ends the daemon
StopsOnErrorNever(st) == FALSE

\* run_sync_cycle's `if settings.stop_on_error`
StopsOnError(st) == st.stop_on_error

\* RepoProcessor's error as text (e.to_string())
ErrorText(r) ==
    IF r.count = 0 THEN r.head ELSE <<ToString(r.count)>> \o r.head

\* run_sync_cycle's match on what process_all returned, and run_daemon up to
\* its thread::sleep
CycleEnd ==
    /\ dpc = "processing"
    /\ pc = "done"
    /\ LET next == IF looping THEN "sleep" ELSE "returned"
           wait == LogIf(looping /\ settings.verbose, <<>>,
                         <<"En espera antes del siguiente ciclo...">>)
       IN  IF result.status = "ok"
           THEN /\ lines' = LogIf(settings.verbose, lines,
                                  <<"Ciclo completado correctamente.">>) \o wait
                /\ dpc' = next
           ELSE IF StopsOnError(settings)
           THEN /\ lines' = LogError(LogError(lines, ErrorText(result)),
                                     <<"Finalizacion por error (stop_on_error=true)">>)
                /\ dpc' = "exited"
           ELSE /\ lines' = LogError(lines, ErrorText(result)) \o wait
                /\ dpc' = next
    /\ cycles' = [cycles EXCEPT ![cycle] =
                      [@ EXCEPT !.errors = errors, !.status = result.status,
                                !.slept = IF dpc' = "sleep" THEN settings.sync_interval
                                          ELSE 0]]
    /\ UNCHANGED <<repo_defs, verbose, pc, idx, errors, ret, result, branch, behind, fs,
                   stack, ops, returned, after_build, platform>>
    /\ UNCHANGED <<mvars, fvars, cycle, settings, settings_file, repos_file, looping>>

\* mutant of reload: verbose is not taken from the file
reload_keep_verbose(st, file) ==
    IF IsSome(file) THEN [file[2] EXCEPT !.verbose = st.verbose] ELSE st

\* Settings::reload
reload(st, file) == IF IsSome(file) THEN file[2] ELSE st

\* mutant of NextAfterSleep: the loop ends when continuous_mode was turned off
NextAfterSleepChecked(st) == IF st.continuous_mode THEN "cycle" ELSE "returned"

\* run_daemon's `loop`: after the reload, back to the top without a condition
NextAfterSleep(st) == "cycle"

\* run_daemon: thread::sleep is over, settings.reload, back to the top of the loop
Sleep ==
    /\ dpc = "sleep"
    /\ settings' = reload(settings, settings_file)
    /\ dpc' = NextAfterSleep(settings')
    /\ UNCHANGED <<pvars, mvars, fvars, cycle, settings_file, repos_file, cycles, looping>>

\* the administrator rewrites or deletes repositories.txt while the daemon sleeps
EditRepos ==
    /\ dpc = "sleep"
    /\ cycle < MaxCycles
    /\ \E f \in {None} \cup {Some(g) : g \in SyncFiles} :
         /\ f # repos_file
         /\ repos_file' = f
    /\ UNCHANGED <<pvars, mvars, fvars, dpc, cycle, settings, settings_file, cycles, looping>>

\* the administrator rewrites config.toml while the daemon sleeps
EditSettings ==
    /\ dpc = "sleep"
    /\ cycle < MaxCycles
    /\ \E f \in SettingsEdits :
         /\ f # settings_file
         /\ settings_file' = f
    /\ UNCHANGED <<pvars, mvars, fvars, dpc, cycle, settings, repos_file, cycles, looping>>

DaemonNext ==
    \/ DaemonStart
    \/ CycleBegin
    \/ ProcessAllBegin
    \/ ValidateRepo
    \/ Fetch
    \/ GetDefaultBranch
    \/ CountCommitsBehind
    \/ Pull
    \/ Build
    \/ DistCheck
    \/ ClearDest
    \/ CreateDest
    \/ CopyOpen
    \/ CopyEntry
    \/ RepoEnd
    \/ CycleEnd
    \/ Sleep
    \/ EditRepos
    \/ EditSettings

DaemonSpec == DaemonInit /\ [][DaemonNext]_vars

\* The daemon on repository lists without deploy targets, where no step of
\* build_and_deploy is ever enabled, under the scheduling of a sequential
\* program: run_daemon's own steps are taken when they can be (thread::sleep
\* returns); nothing is assumed of the administrator or of the git commands
\* beyond their returning.
SyncInit ==
    /\ DaemonInit
    /\ repos_file \in {None} \cup {Some(f) : f \in SyncFiles}

SyncNext ==
    \/ DaemonStart
    \/ CycleBegin
    \/ ProcessAllBegin
    \/ ValidateRepo
    \/ Fetch
    \/ GetDefaultBranch
    \/ CountCommitsBehind
    \/ Pull
    \/ RepoEnd
    \/ CycleEnd
    \/ Sleep
    \/ EditRepos
    \/ EditSettings

DaemonLive ==
    /\ SyncInit
    /\ [][SyncNext]_vars
    /\ WF_vars(CycleEnd)
    /\ WF_vars(Sleep)
    /\ WF_vars(CycleBegin)

----------------------------------------------------------------------------
(* process_all with the other value of verbose.  Under VerboseSpec every  *)
(* state of a call of process_all is also looked at with verbose negated:  *)
(* the processor takes one step from there (Probe, then a step of Next),   *)
(* the state is put back (Rewind) with what that step did kept in value,    *)
(* and the call goes on from where it was (Resume).                         *)

\* everything process_all reads or writes but verbose and the reported lines
Low == <<repo_defs, pc, idx, errors, ret, result, branch, behind, fs, stack, ops,
         returned, after_build, platform>>

\* Low in a saved tuple of pvars
LowOf(saved) ==
    <<saved[1], saved[3], saved[4], saved[5], saved[6], saved[7], saved[8], saved[9],
      saved[10], saved[11], saved[12], saved[13], saved[14], saved[16]>>

\* RepoProcessor::new with the other verbose, in the state the call is in
Probe ==
    /\ call = "none"
    /\ pc # "done"
    /\ call' = "twin"
    /\ args' = [fn |-> "process_all", saved |-> pvars]
    /\ verbose' = ~verbose
    /\ UNCHANGED <<value, dvars, mvars, Low, lines>>

\* the processor with the other verbose has taken its step: back to the saved
\* state, what the step did to Low kept in value
Rewind ==
    /\ call = "twin"
    /\ Low # LowOf(args.saved)
    /\ call' = "match"
    /\ value' = Low
    /\ repo_defs' = args.saved[1]
    /\ verbose' = args.saved[2]
    /\ pc' = args.saved[3]
    /\ idx' = args.saved[4]
    /\ errors' = args.saved[5]
    /\ ret' = args.saved[6]
    /\ result' = args.saved[7]
    /\ branch' = args.saved[8]
    /\ behind' = args.saved[9]
    /\ fs' = args.saved[10]
    /\ stack' = args.saved[11]
    /\ ops' = args.saved[12]
    /\ returned' = args.saved[13]
    /\ after_build' = args.saved[14]
    /\ lines' = args.saved[15]
    /\ platform' = args.saved[16]
    /\ UNCHANGED <<args, dvars, mvars>>

\* the call of process_all goes on
Resume ==
    /\ call = "match"
    /\ call' = "none"
    /\ args' = [fn |-> "none"]
    /\ value' = None
    /\ UNCHANGED <<pvars, dvars, mvars>>

\* a step of process_all, of the call itself or of the processor with the
\* other verbose (one step only)
ProcessStep ==
    /\ \/ call = "none"
       \/ call = "twin" /\ Low = LowOf(args.saved)
    /\ Next

VerboseNext ==
    \/ ProcessStep
    \/ Probe
    \/ Rewind
    \/ Resume

VerboseSpec == Init /\ [][VerboseNext]_vars

----------------------------------------------------------------------------
(* The repository manager (tui.rs): run_loop reads one key event at a time *)
(* and hands it to the RepoManager; one action per key and input mode.     *)

\* longest list the manager is given or builds
MaxList == 2

\* longest input buffer typed
MaxInput == 2

\* InputMode's other variants
ChoosingBuildType == [mode |-> "ChoosingBuildType"]

AddingSource(rb) == [mode |-> "AddingSource", requires_build |-> rb]

AddingDestination(src) == [mode |-> "AddingDestination", source |-> src]

AskingEnvConfirmation(src, env) ==
    [mode |-> "AskingEnvConfirmation", source |-> src, env_path |-> env]

ConfirmingEnv(src, env, rb) ==
    [mode |-> "ConfirmingEnv", source |-> src, env_path |-> env, requires_build |-> rb]

EditingSource(index) == [mode |-> "EditingSource", index |-> index]

EditingDestination(index, src) ==
    [mode |-> "EditingDestination", index |-> index, source |-> src]

\* the modes in which run_loop hands Enter, Esc, Backspace and characters to
\* the input buffer
TextModes ==
    {"AddingSource", "AddingDestination", "AskingEnvConfirmation", "ConfirmingEnv",
     "EditingSource", "EditingDestination"}

\* the characters typed into the buffer: a path piece and a blank everywhere,
\* and an upper-case answer where the manager asks for one
Typed(mode) == IF mode = "AskingEnvConfirmation" THEN {"a", " ", "Y"} ELSE {"a", " "}

\* str::to_lowercase on the typed pieces
ToLowercase(s) == [k \in 1..Len(s) |-> IF s[k] = "Y" THEN "y" ELSE s[k]]

\* the repositories file the manager starts from: the default one, one the
\* manager wrote with one repository, and one with two
TuiFiles ==
    { DefaultReposFile,
      WriteHeader \o << <<"a">> >>,
      WriteHeader \o << <<"a">>, <<"b", " ", "=>", " ", "pub">> >> }

EnvFile == Node("file", <<"env">>)

\* the source directories the manager looks at: /a holds .env, with or
\* without .env.production beside it
TuiFileSystems ==
    { PutNode(InitFs, Join(RepoA, ".env"), EnvFile),
      PutNode(PutNode(InitFs, Join(RepoA, ".env"), EnvFile),
              Join(RepoA, ".env.production"), EnvFile) }

\* RepoManager::find_env_file
find_env_file(f, source_path) ==
    IF ~IsDir(f, source_path) THEN None
    ELSE IF Exists(f, Join(source_path, ".env.production"))
         THEN Some(Join(source_path, ".env.production"))
    ELSE IF Exists(f, Join(source_path, ".env"))
         THEN Some(Join(source_path, ".env"))
    ELSE None

\* RepoManager::config_env_file when both the read and the write succeed: the
\* file ends with the GIT_SYNC_DEPLOY_PATH line
config_env_file(f, env_path, deploy_path) ==
    PutNode(f, env_path, Node("file", <<"env", "GIT_SYNC_DEPLOY_PATH", deploy_path>>))

\* how Config::write_repos can end: both steps done, fs::write failed, or the
\* file was written and set_permissions failed
WriteOutcomes == {"ok", "write_failed", "chmod_failed"}

\* mutant of persist: nothing is written and Ok is returned
persist_nothing(list, o) == [file |-> repos_file, written |-> written, res |-> Ok]

\* RepoManager::persist: the file and the Result Config::write_repos leaves
persist(list, o) ==
    [file    |-> IF o = "write_failed" THEN repos_file ELSE Some(write_repos(list)),
     written |-> IF o = "write_failed" THEN written ELSE Some(list),
     res     |-> IF o = "ok" THEN Ok ELSE Err(o)]

\* what no key handler of the manager touches
tframe == <<repo_defs, verbose, pc, idx, errors, ret, result, branch, behind, stack, ops,
            returned, after_build, lines, platform, dpc, cycle, settings, settings_file,
            cycles, looping, fvars>>

\* run_loop's first line: RepoManager::new on a readable repositories file
TuiInit ==
    /\ repo_defs = <<>>
    /\ verbose = FALSE
    /\ pc = "idle"
    /\ idx = 0
    /\ errors = <<>>
    /\ ret = None
    /\ result = Running
    /\ branch = <<>>
    /\ behind = -1
    /\ fs \in TuiFileSystems
    /\ stack = <<>>
    /\ ops = <<>>
    /\ returned = <<>>
    /\ after_build = NoSnapshot
    /\ lines = <<>>
    /\ platform = "unknown"
    /\ dpc = "idle"
    /\ cycle = 0
    /\ settings \in {Settings("production", TRUE, TRUE, FALSE),
                     Settings("development", TRUE, TRUE, FALSE)}
    /\ settings_file = Some(settings)
    /\ repos_file \in {Some(f) : f \in TuiFiles}
    /\ cycles = <<>>
    /\ looping = FALSE
    /\ NoCall
    /\ mpc = "running"
    /\ input_mode = Normal
    /\ input = <<>>
    /\ repos = read_repos(repos_file[2])
    /\ list_state = IF repos # <<>> THEN Some(0) ELSE None
    /\ message = None
    /\ written = None
    /\ key = "none"

\* Ctrl-C in any mode: run_loop returns Ok
CtrlC ==
    /\ mpc = "running"
    /\ key' = "CtrlC"
    /\ mpc' = "ok"
    /\ UNCHANGED <<input_mode, input, repos, list_state, message, written>>
    /\ UNCHANGED <<tframe, fs, repos_file>>

\* q or Esc in Normal mode: run_loop returns Ok
Quit ==
    /\ mpc = "running"
    /\ input_mode = Normal
    /\ key' \in {"q", "Esc"}
    /\ mpc' = "ok"
    /\ UNCHANGED <<input_mode, input, repos, list_state, message, written>>
    /\ UNCHANGED <<tframe, fs, repos_file>>

\* terminal.draw or event::read fails: run_loop returns the error
TerminalError ==
    /\ mpc = "running"
    /\ mpc' = "err"
    /\ key' = "none"
    /\ UNCHANGED <<input_mode, input, repos, list_state, message, written>>
    /\ UNCHANGED <<tframe, fs, repos_file>>

\* a key the mode has no arm for
Ignored ==
    /\ mpc = "running"
    /\ key' = "Left"
    /\ UNCHANGED <<mpc, input_mode, input, repos, list_state, message, written>>
    /\ UNCHANGED <<tframe, fs, repos_file>>

\* usize::min
Min(a, b) == IF a <= b THEN a ELSE b

\* Down in Normal mode: RepoManager::select_next
SelectNext ==
    /\ mpc = "running"
    /\ input_mode = Normal
    /\ key' = "Down"
    /\ LET next_index == IF IsSome(list_state) /\ repos # <<>>
                         THEN Min(list_state[2] + 1, Len(repos) - 1)
                         ELSE 0
       IN  list_state' = IF repos # <<>> THEN Some(next_index) ELSE list_state
    /\ UNCHANGED <<mpc, input_mode, input, repos, message, written>>
    /\ UNCHANGED <<tframe, fs, repos_file>>

\* Up in Normal mode: RepoManager::select_previous
SelectPrevious ==
    /\ mpc = "running"
    /\ input_mode = Normal
    /\ key' = "Up"
    /\ LET prev_index == IF IsSome(list_state) /\ list_state[2] > 0
                         THEN list_state[2] - 1
                         ELSE 0
       IN  list_state' = IF repos # <<>> THEN Some(prev_index) ELSE list_state
    /\ UNCHANGED <<mpc, input_mode, input, repos, message, written>>
    /\ UNCHANGED <<tframe, fs, repos_file>>

\* a in Normal mode: RepoManager::start_add (while the list has room)
StartAdd ==
    /\ mpc = "running"
    /\ input_mode = Normal
    /\ Len(repos) < MaxList
    /\ key' = "a"
    /\ input_mode' = ChoosingBuildType
    /\ input' = <<>>
    /\ message' = Some("ask_build")
    /\ UNCHANGED <<mpc, repos, list_state, written>>
    /\ UNCHANGED <<tframe, fs, repos_file>>

\* e or Enter in Normal mode: RepoManager::start_edit
StartEdit ==
    /\ mpc = "running"
    /\ input_mode = Normal
    /\ key' \in {"e", "Enter"}
    /\ IF IsSome(list_state) /\ list_state[2] < Len(repos)
       THEN /\ input_mode' = EditingSource(list_state[2])
            /\ input' = repos[list_state[2] + 1].repo_path
            /\ message' = Some("edit_source")
       ELSE UNCHANGED <<input_mode, input, message>>
    /\ UNCHANGED <<mpc, repos, list_state, written>>
    /\ UNCHANGED <<tframe, fs, repos_file>>

\* mutant of SelectionAfterDelete: the selection stays where it was
SelectionKept(index, len) == Some(index)

\* the selection delete_selected leaves once the list has len entries
SelectionAfterDelete(index, len) ==
    IF len = 0 THEN None
    ELSE IF index >= len THEN Some(len - 1)
    ELSE Some(index)

\* s without its k-th element (Vec::remove, 1-based here)
Without(s, k) == SubSeq(s, 1, k - 1) \o SubSeq(s, k + 1, Len(s))

\* d in Normal mode: RepoManager::delete_selected, `?` on its Result
DeleteSelected ==
    /\ mpc = "running"
    /\ input_mode = Normal
    /\ key' = "d"
    /\ IF IsSome(list_state) /\ list_state[2] < Len(repos)
       THEN \E o \in WriteOutcomes :
              LET index == list_state[2]
                  list  == Without(repos, index + 1)
                  p     == persist(list, o)
              IN  /\ repos' = list
                  /\ repos_file' = p.file
                  /\ written' = p.written
                  /\ IF p.res = Ok
                     THEN /\ list_state' = SelectionAfterDelete(index, Len(list))
                          /\ message' = Some("deleted")
                          /\ mpc' = "running"
                     ELSE /\ UNCHANGED <<list_state, message>>
                          /\ mpc' = "err"
       ELSE UNCHANGED <<mpc, repos, repos_file, written, list_state, message>>
    /\ UNCHANGED <<input_mode, input>>
    /\ UNCHANGED <<tframe, fs>>

\* 1, n, N or 2, s, S in ChoosingBuildType: RepoManager::begin_source_input
ChooseBuildType ==
    /\ mpc = "running"
    /\ input_mode = ChoosingBuildType
    /\ key' \in {"1", "n", "N", "2", "s", "S"}
    /\ LET requires_build == key' \in {"2", "s", "S"}
       IN  /\ input_mode' = AddingSource(requires_build)
           /\ message' = Some(IF requires_build THEN "ask_source_build"
                                                ELSE "ask_source_simple")
    /\ input' = <<>>
    /\ UNCHANGED <<mpc, repos, list_state, written>>
    /\ UNCHANGED <<tframe, fs, repos_file>>

\* mutant of InputAfterCancel: the buffer is left as typed
InputKept(buffer) == buffer

\* the buffer after String::clear in cancel_input
InputAfterCancel(buffer) == <<>>

\* Esc in ChoosingBuildType or a text mode: RepoManager::cancel_input
CancelInput ==
    /\ mpc = "running"
    /\ input_mode # Normal
    /\ key' = "Esc"
    /\ input_mode' = Normal
    /\ input' = InputAfterCancel(input)
    /\ message' = Some("cancelled")
    /\ UNCHANGED <<mpc, repos, list_state, written>>
    /\ UNCHANGED <<tframe, fs, repos_file>>

\* Backspace in a text mode: RepoManager::backspace
Backspace ==
    /\ mpc = "running"
    /\ input_mode.mode \in TextModes
    /\ key' = "Backspace"
    /\ input' = IF input = <<>> THEN <<>> ELSE SubSeq(input, 1, Len(input) - 1)
    /\ UNCHANGED <<mpc, input_mode, repos, list_state, message, written>>
    /\ UNCHANGED <<tframe, fs, repos_file>>

\* a character in a text mode: RepoManager::add_char (while the buffer has room)
AddChar ==
    /\ mpc = "running"
    /\ input_mode.mode \in TextModes
    /\ Len(input) < MaxInput
    /\ \E c \in Typed(input_mode.mode) :
         /\ key' = c
         /\ input' = Append(input, c)
    /\ UNCHANGED <<mpc, input_mode, repos, list_state, message, written>>
    /\ UNCHANGED <<tframe, fs, repos_file>>

\* RepoManager::begin_destination_input
BeginDestinationInput(source) ==
    /\ input_mode' = AddingDestination(source)
    /\ input' = <<>>
    /\ message' = Some("ask_destination")
    /\ UNCHANGED <<mpc, repos, list_state, written, repos_file>>

\* repos.push(d), persist()?, and what follows it: the new entry selected, the
\* message, Normal mode and an empty buffer.  An Err of persist leaves submit
\* at the `?`, with the message set before it.
PushAndPersist(d, msg, before) ==
    \E o \in WriteOutcomes :
      LET list == Append(repos, d)
          p    == persist(list, o)
      IN  /\ repos' = list
          /\ repos_file' = p.file
          /\ written' = p.written
          /\ IF p.res = Ok
             THEN /\ list_state' = Some(Len(list) - 1)
                  /\ message' = Some(msg)
                  /\ input_mode' = Normal
                  /\ input' = <<>>
                  /\ mpc' = "running"
             ELSE /\ UNCHANGED <<list_state, input_mode, input>>
                  /\ message' = before
                  /\ mpc' = "err"

\* RepoManager::finalize_simple_repo
FinalizeSimpleRepo(source) == PushAndPersist(RepoDefinition(source, None), "added", message)

\* mutant of SourceRejected: an empty source is taken
SourceTaken(input_value) == FALSE

\* submit's `input_value.is_empty()` on a source
SourceRejected(input_value) == input_value = <<>>

\* Enter in AddingSource: RepoManager::submit
SubmitAddingSource ==
    /\ mpc = "running"
    /\ input_mode.mode = "AddingSource"
    /\ key' = "Enter"
    /\ LET input_value == Trim(input)
           env == IF settings.mode = "development"
                  THEN find_env_file(fs, input_value)
                  ELSE None
       IN  IF SourceRejected(input_value)
           THEN /\ message' = Some("empty_source")
                /\ UNCHANGED <<mpc, input_mode, input, repos, list_state, written,
                               repos_file>>
           ELSE IF IsSome(env)
           THEN /\ input_mode' = AskingEnvConfirmation(input_value, env[2])
                /\ input' = <<>>
                /\ message' = Some("env_detected")
                /\ UNCHANGED <<mpc, repos, list_state, written, repos_file>>
           ELSE IF input_mode.requires_build
           THEN BeginDestinationInput(input_value)
           ELSE FinalizeSimpleRepo(input_value)
    /\ UNCHANGED <<tframe, fs>>

\* Enter in AskingEnvConfirmation: RepoManager::submit
SubmitAskingEnvConfirmation ==
    /\ mpc = "running"
    /\ input_mode.mode = "AskingEnvConfirmation"
    /\ key' = "Enter"
    /\ LET lower == ToLowercase(Trim(input))
       IN  IF lower = <<"y">> \/ lower = <<"s">>
           THEN /\ input_mode' = ConfirmingEnv(input_mode.source, input_mode.env_path, TRUE)
                /\ input' = <<>>
                /\ message' = Some("ask_remote")
                /\ UNCHANGED <<mpc, repos, list_state, written, repos_file>>
           ELSE BeginDestinationInput(input_mode.source)
    /\ UNCHANGED <<tframe, fs>>

\* Enter in ConfirmingEnv: RepoManager::submit; config_env_file may fail at
\* its read or at its write, and only the message tells
SubmitConfirmingEnv ==
    /\ mpc = "running"
    /\ input_mode.mode = "ConfirmingEnv"
    /\ key' = "Enter"
    /\ LET input_value == Trim(input)
       IN  IF input_value # <<>>
           THEN \E env_ok \in BOOLEAN :
                  /\ fs' = IF env_ok
                           THEN config_env_file(fs, input_mode.env_path, input_value)
                           ELSE fs
                  /\ PushAndPersist(RepoDefinition(input_mode.source, Some(input_value)),
                                    "added_env",
                                    Some(IF env_ok THEN "env_updated" ELSE "env_error"))
           ELSE /\ UNCHANGED fs
                /\ IF input_mode.requires_build
                   THEN BeginDestinationInput(input_mode.source)
                   ELSE FinalizeSimpleRepo(input_mode.source)
    /\ UNCHANGED tframe

\* Enter in AddingDestination: RepoManager::submit
SubmitAddingDestination ==
    /\ mpc = "running"
    /\ input_mode.mode = "AddingDestination"
    /\ key' = "Enter"
    /\ LET input_value == Trim(input)
       IN  IF input_value = <<>>
           THEN FinalizeSimpleRepo(input_mode.source)
           ELSE PushAndPersist(RepoDefinition(input_mode.source, Some(input_value)),
                               "added_build", message)
    /\ UNCHANGED <<tframe, fs>>

\* Option<String>::unwrap_or_default
UnwrapOrDefault(o) == IF IsSome(o) THEN o[2] ELSE <<>>

\* Enter in EditingSource: RepoManager::submit
SubmitEditingSource ==
    /\ mpc = "running"
    /\ input_mode.mode = "EditingSource"
    /\ key' = "Enter"
    /\ LET input_value == Trim(input)
           index == input_mode.index
       IN  IF SourceRejected(input_value)
           THEN /\ message' = Some("empty_source")
                /\ UNCHANGED <<input_mode, input>>
           ELSE IF index >= Len(repos)
           THEN /\ input_mode' = Normal
                /\ input' = <<>>
                /\ message' = Some("cancelled")
           ELSE /\ input_mode' = EditingDestination(index, input_value)
                /\ input' = UnwrapOrDefault(repos[index + 1].deploy_target)
                /\ message' = Some("edit_destination")
    /\ UNCHANGED <<mpc, repos, list_state, written>>
    /\ UNCHANGED <<tframe, fs, repos_file>>

\* Enter in EditingDestination: RepoManager::submit
SubmitEditingDestination ==
    /\ mpc = "running"
    /\ input_mode.mode = "EditingDestination"
    /\ key' = "Enter"
    /\ LET input_value == Trim(input)
           index == input_mode.index
           deploy_target == IF input_value = <<>> THEN None ELSE Some(input_value)
       IN  IF index >= Len(repos)
           THEN /\ message' = Some("not_found")
                /\ input_mode' = Normal
                /\ input' = <<>>
                /\ UNCHANGED <<mpc, repos, written, repos_file>>
           ELSE \E o \in WriteOutcomes :
                  LET list == [repos EXCEPT ![index + 1] =
                                   RepoDefinition(input_mode.source, deploy_target)]
                      p    == persist(list, o)
                  IN  /\ repos' = list
                      /\ repos_file' = p.file
                      /\ written' = p.written
                      /\ IF p.res = Ok
                         THEN /\ message' = Some(IF IsSome(deploy_target)
                                                 THEN "updated_build" ELSE "updated")
                              /\ input_mode' = Normal
                              /\ input' = <<>>
                              /\ mpc' = "running"
                         ELSE /\ UNCHANGED <<message, input_mode, input>>
                              /\ mpc' = "err"
    /\ UNCHANGED list_state
    /\ UNCHANGED <<tframe, fs>>

TuiNext ==
    \/ CtrlC
    \/ Quit
    \/ TerminalError
    \/ Ignored
    \/ SelectNext
    \/ SelectPrevious
    \/ StartAdd
    \/ StartEdit
    \/ DeleteSelected
    \/ ChooseBuildType
    \/ CancelInput
    \/ Backspace
    \/ AddChar
    \/ SubmitAddingSource
    \/ SubmitAskingEnvConfirmation
    \/ SubmitConfirmingEnv
    \/ SubmitAddingDestination
    \/ SubmitEditingSource
    \/ SubmitEditingDestination

TuiSpec == TuiInit /\ [][TuiNext]_vars

----------------------------------------------------------------------------
(* Properties.                                                             *)

InvokedOp(name) == \E k \in 1..Len(ops) : ops[k].op = name

SyncOps == {"validate", "fetch", "get_default_branch", "count_commits_behind", "pull"}

DeployOps ==
    {"remove_dir_all", "create_dir_all", "read_dir", "read_entry", "copy",
     "read_link", "symlink", "symlink_unsupported", "file_type"}

\* validation and synchronization of the current repository returned Ok
SyncSucceeded == \A k \in 1..Len(ops) : ops[k].op \in SyncOps => ops[k].ok

\* the calls of process_single that returned Err, in call order
Failing == SelectSeq(returned, LAMBDA e : IsErr(e.ret))

\* C1: a failure at position i does not keep position i+1 from being processed:
\* process_single is called once for every definition, in list order, and the
\* aggregate error lists exactly the failing definitions, each with its own
\* failure detail, in list order, and counts them.
C1_BatchIsolation ==
    /\ \A k \in 1..Len(returned) : returned[k].idx = k /\ returned[k].repo = repo_defs[k]
    /\ pc \notin {"start", "done"} => Len(returned) = idx - 1
    /\ Len(errors) = Len(Failing)
    /\ \A k \in 1..Len(Failing) :
         errors[k] = <<Failing[k].repo.repo_path, Failing[k].ret[2]>>
    /\ (pc = "done" /\ repo_defs # <<>>) =>
         /\ Len(returned) = Len(repo_defs)
         /\ Failing # <<>> =>
              /\ result.status = "err"
              /\ result.count = Len(Failing)
              /\ Len(result.details) = Len(Failing)
              /\ \A k \in 1..Len(Failing) :
                   result.details[k] = <<"- ">> \o Failing[k].repo.repo_path
                                           \o <<" => ">> \o Failing[k].ret[2]

\* a batch whose first definition failed and whose second was processed and succeeded
C1_Witness ==
    /\ pc = "done"
    /\ Len(returned) = 2
    /\ IsErr(returned[1].ret)
    /\ IsOk(returned[2].ret)

\* C2: a repository whose behind-count is 0 is never pulled.
C2_NoPullWhenUpToDate == behind = 0 => ~InvokedOp("pull")

\* a repository found up to date and processed to the end
C2_Witness ==
    /\ pc = "repo_end"
    /\ behind = 0
    /\ IsOk(ret)
    /\ InvokedOp("count_commits_behind")

\* C3 as stated: the build is invoked for a definition iff its deploy target is set.
C3_Original ==
    pc = "repo_end" => (InvokedOp("build") <=> IsSome(Cur.deploy_target))

\* C3: the build is invoked for a definition iff its deploy target is set and its
\* validation and synchronization succeeded.
C3_DeployIffTargetAndSynced ==
    pc = "repo_end" =>
        (InvokedOp("build") <=> (IsSome(Cur.deploy_target) /\ SyncSucceeded))

\* a definition with a deploy target whose build was invoked
C3_Witness ==
    /\ pc = "repo_end"
    /\ IsSome(Cur.deploy_target)
    /\ InvokedOp("build")

\* C4: an empty list is a failure (no repositories configured) whatever verbose
\* is, and no operation is invoked and nothing is changed.
C4_EmptyConfig ==
    repo_defs = <<>> =>
        /\ pc \in {"start", "done"}
        /\ ops = <<>> /\ returned = <<>> /\ fs = InitFs
        /\ pc = "done" =>
             /\ result.status = "err"
             /\ result.head = <<"No hay repositorios configurados">>

\* process_all returned for the empty list
C4_Witness == repo_defs = <<>> /\ pc = "done"

\* C5 as stated: for every list, success iff the accumulated failures are empty.
C5_Original ==
    pc = "done" => (result.status = "ok" <=> errors = <<>>)

\* C5: for every non-empty list, process_all returns success iff the accumulated
\* failures are empty; for the empty list it returns a failure with none accumulated.
C5_SuccessIffNoFailure ==
    pc = "done" =>
        /\ result.status \in {"ok", "err"}
        /\ repo_defs # <<>> => (result.status = "ok" <=> errors = <<>>)
        /\ repo_defs = <<>> => (result.status = "err" /\ errors = <<>>)

\* a non-empty batch that succeeded
C5_Witness ==
    /\ pc = "done"
    /\ repo_defs # <<>>
    /\ errors = <<>>
    /\ result.status = "ok"

\* the step an error message of process_single comes from
StepOfError(msg) ==
    CASE msg[1] \in {"La ruta no existe: ",
                     "El directorio no es un repositorio Git valido: "} -> "validate"
      [] msg[1] = "No se pudo ejecutar 'git fetch': " -> "fetch"
      [] msg[1] = "No se pudo consultar el estado del repositorio: " -> "count_commits_behind"
      [] msg[1] = "No se pudo ejecutar 'git pull': " -> "pull"
      [] msg[1] \in {"No se pudo ejecutar 'npm run build': ",
                     "'npm run build' finalizo con estado "} -> "build"
      [] msg[1] = "No se encontro el directorio de salida en " -> "dist_exists"
      [] msg[1] = "No se pudo limpiar el destino " -> "remove_dir_all"
      [] msg[1] \in {"No se pudo crear el directorio destino ",
                     "No se pudo crear el directorio "} -> "create_dir_all"
      [] msg[1] = "No se pudo leer el directorio " -> "read_dir"
      [] msg[1] = "No se pudo procesar una entrada en " -> "read_entry"
      [] msg[1] = "No se pudo leer el enlace simbolico " -> "read_link"
      [] msg[1] = "No se pudo copiar " -> "copy"
      [] msg[1] = "No se pudo recrear el enlace simbolico " -> "symlink"
      [] msg[1] = "Los enlaces simbolicos no son compatibles" -> "symlink_unsupported"
      [] OTHER -> "file_type"

FailedOp(name) == \E k \in 1..Len(ops) : ops[k].op = name /\ ~ops[k].ok

\* C6: once a step of a repository returned an error no later step is invoked
\* for it, and the error process_single returns (the one process_all records) is
\* the error of that step; a fetch failure means no behind-count, pull or build,
\* a pull failure means no build.
C6_FirstFailureStops ==
    /\ \A k \in 1..Len(ops) : ~ops[k].ok => k = Len(ops)
    /\ (ops # <<>> /\ ~Last(ops).ok) =>
         /\ IsErr(ret)
         /\ StepOfError(ret[2]) = Last(ops).op
         /\ pc \in {"repo_end", "done"}
    /\ IsErr(ret) => (ops # <<>> /\ ~Last(ops).ok)
    /\ (pc = "done" /\ IsErr(ret)) =>
         (errors # <<>> /\ Last(errors) = <<Cur.repo_path, ret[2]>>)
    /\ FailedOp("fetch") =>
         ~(InvokedOp("count_commits_behind") \/ InvokedOp("pull") \/ InvokedOp("build"))
    /\ FailedOp("pull") => ~InvokedOp("build")

\* a repository with a deploy target whose pull failed
C6_Witness ==
    /\ pc = "repo_end"
    /\ IsSome(Cur.deploy_target)
    /\ FailedOp("pull")
    /\ IsErr(ret)

\* the entries of a tree that copy_recursive is specified to reproduce
Copyable(t) == [r \in {q \in DOMAIN t : t[q].kind \in {"dir", "file", "link"}} |-> t[r]]

\* build_and_deploy returned Ok for the current repository
Published == pc = "repo_end" /\ IsOk(ret) /\ IsSome(Cur.deploy_target)

\* C7: after a successful publish the destination holds exactly the directories,
\* regular files and symbolic links that were under dist when the build ended,
\* at the same relative paths, and nothing else.
C7_Original ==
    (Published /\ IsDir(after_build, DistPath)) =>
        /\ IsDir(fs, Dest)
        /\ Subtree(fs, Dest) = Copyable(Subtree(after_build, DistPath))

\* the deploy target lies in the source tree or the source tree lies in it
Overlaps(repo) ==
    IsSome(repo.deploy_target) /\
        (IsPrefix(repo.repo_path, repo.deploy_target[2])
            \/ IsPrefix(repo.deploy_target[2], repo.repo_path))

\* the statement of C7 for deploy targets outside the source tree
PublishExactOutsideSource ==
    (Published /\ IsDir(after_build, DistPath) /\ ~Overlaps(Cur)) =>
        /\ IsDir(fs, Dest)
        /\ Subtree(fs, Dest) = Copyable(Subtree(after_build, DistPath))

\* the build exited with a non-zero status (or was killed) for the current repository
BuildExitedNonZero ==
    \E k \in 1..Len(ops) : ops[k].op = "build" /\ ops[k].out \in {"exit1", "signal"}

\* C8: when the build exits with a non-zero status, process_single returns the
\* build failure, process_all records it, and nothing is removed, created or
\* written: the file system stays as the build left it.
C8_BuildFailureLeavesDest ==
    /\ [](BuildExitedNonZero =>
            /\ Last(ops).op = "build"
            /\ IsErr(ret)
            /\ ret[2][1] = "'npm run build' finalizo con estado "
            /\ pc \in {"repo_end", "done"}
            /\ fs = after_build
            /\ \A k \in 1..Len(ops) : ops[k].op \notin DeployOps)
    /\ [][(BuildExitedNonZero /\ pc = "repo_end") =>
            /\ errors' = Append(errors, <<Cur.repo_path, ret[2]>>)
            /\ fs' = fs]_vars

\* a build that exited with status 1 while the destination exists
C8_Witness ==
    /\ pc = "repo_end"
    /\ ops # <<>> /\ Last(ops).op = "build" /\ Last(ops).out = "exit1"
    /\ Exists(fs, Dest)

\* the build succeeded for the current repository
BuildSucceeded == \E k \in 1..Len(ops) : ops[k].op = "build" /\ ops[k].out = "exit0"

\* C9: when the build succeeds and there is no dist directory under the source
\* path, process_single returns the missing-output failure and the destination
\* is as it was.
C9_Original ==
    (pc = "repo_end" /\ BuildSucceeded /\ ~IsDir(after_build, DistPath)) =>
        /\ IsErr(ret)
        /\ ret[2] = <<"No se encontro el directorio de salida en ">> \o DistPath
        /\ fs = after_build

\* the statement of C9 when nothing at all is named dist
MissingDistFails ==
    (pc = "repo_end" /\ BuildSucceeded /\ ~Exists(after_build, DistPath)) =>
        /\ IsErr(ret)
        /\ ret[2] = <<"No se encontro el directorio de salida en ">> \o DistPath
        /\ fs = after_build

\* the source path is missing or has no .git marker
PathInvalid(f, repo_path) == ~Exists(f, repo_path) \/ ~Exists(f, Join(repo_path, ".git"))

\* C10: a definition whose source path is missing or has no .git marker fails
\* in validation with the message for its path and nothing else is invoked for
\* it; it is recorded once, the batch result is a failure, and every other
\* definition of the batch is still processed.
C10_InvalidPath ==
    /\ (idx >= 1 /\ ops # <<>> /\ PathInvalid(fs, Cur.repo_path)) =>
         /\ Len(ops) = 1 /\ ops[1].op = "validate" /\ ~ops[1].ok
         /\ IsErr(ret)
         /\ ret[2] \in {<<"La ruta no existe: ">> \o Cur.repo_path,
                        <<"El directorio no es un repositorio Git valido: ">> \o Cur.repo_path}
    /\ \A k \in 1..Len(returned) :
         PathInvalid(fs, returned[k].repo.repo_path) =>
             (IsErr(returned[k].ret) /\ StepOfError(returned[k].ret[2]) = "validate")
    /\ pc = "done" =>
         \A k \in 1..Len(repo_defs) :
             LET p == repo_defs[k].repo_path
             IN  PathInvalid(fs, p) =>
                   /\ result.status = "err"
                   /\ Len(returned) = Len(repo_defs)
                   /\ Cardinality({j \in 1..Len(errors) : errors[j][1] = p})
                        = Cardinality({j \in 1..Len(repo_defs) : repo_defs[j].repo_path = p})

\* a batch whose first definition has an invalid path and whose second succeeded
C10_Witness ==
    /\ pc = "done"
    /\ Len(returned) = 2
    /\ PathInvalid(fs, repo_defs[1].repo_path)
    /\ IsOk(returned[2].ret)

\* the steps of build_and_deploy and copy_recursive
PublishOps ==
    {"build", "dist_exists"} \cup DeployOps

\* a step of the publish of the current repository returned an error
PublishFailed == \E k \in 1..Len(ops) : ops[k].op \in PublishOps /\ ~ops[k].ok

\* C11: when a definition has a deploy target and its synchronization succeeded,
\* a failure of any publish step (build, missing dist, clearing, creating or
\* copying into the destination) makes process_single return that error, and
\* every error a call returned is in the failure list with its path and is in
\* the aggregate process_all returns.
C11_PublishFailureRecorded ==
    /\ (idx >= 1 /\ IsSome(Cur.deploy_target) /\ SyncSucceeded /\ PublishFailed) =>
         /\ IsErr(ret)
         /\ StepOfError(ret[2]) \in PublishOps
         /\ pc \in {"repo_end", "done"}
    /\ \A k \in 1..Len(returned) :
         IsErr(returned[k].ret) =>
             \E j \in 1..Len(errors) :
                 errors[j] = <<returned[k].repo.repo_path, returned[k].ret[2]>>
    /\ (pc = "done" /\ idx >= 1 /\ PublishFailed) =>
         /\ result.status = "err"
         /\ \E j \in 1..Len(result.details) :
               result.details[j] = <<"- ">> \o Cur.repo_path \o <<" => ">> \o ret[2]

\* a batch that ended with a repository whose synchronization succeeded and whose
\* copy into the destination failed
C11_Witness ==
    /\ pc = "done"
    /\ idx >= 1
    /\ IsSome(Cur.deploy_target)
    /\ SyncSucceeded
    /\ FailedOp("copy")
    /\ result.status = "err"

\* C12: repositories are processed one after another in list order: the loop
\* position only moves from i to i+1, and only once process_single returned for
\* position i with no copy still active; operations are invoked only for the
\* position the loop is at, while its process_single has not returned.
C12_Sequential ==
    [][/\ idx' \in {idx, idx + 1}
       /\ idx' # idx =>
            /\ pc \in {"start", "repo_end"}
            /\ pc = "repo_end" => ret # None
            /\ stack = <<>>
            /\ ops' = <<>>
            /\ Len(returned') = idx
       /\ ops' # ops =>
            \/ idx' = idx + 1 /\ ops' = <<>>
            \/ /\ idx' = idx
               /\ ret = None
               /\ Len(returned) = idx - 1
               /\ Len(ops') > Len(ops)
               /\ SubSeq(ops', 1, Len(ops)) = ops]_vars

\* the second repository of a batch has operations invoked, after the first was
\* synchronized and published
C12_Witness ==
    /\ idx = 2
    /\ ops # <<>>
    /\ IsSome(returned[1].repo.deploy_target)
    /\ IsOk(returned[1].ret)

SyncOrder == <<"validate", "fetch", "get_default_branch", "count_commits_behind", "pull">>

\* C13: for a validated repository the synchronization operations are invoked in
\* the order fetch, default-branch resolution, behind-count, and then pull
\* exactly when the behind-count is positive; each at most once, and pull is
\* issued for the branch the behind-count was computed against.
C13_SyncOrder ==
    /\ \A k \in 1..Len(ops) :
         /\ k <= 4 => ops[k].op = SyncOrder[k]
         /\ ops[k].op \in SyncOps => (k <= 5 /\ ops[k].op = SyncOrder[k])
    /\ behind >= 0 => (behind > 0 <=> (pc = "pull" \/ InvokedOp("pull")))
    /\ InvokedOp("pull") =>
         /\ behind > 0
         /\ ops[5].arg = ops[4].arg
         /\ ops[5].arg = branch
    /\ (behind = -1 /\ pc \notin {"start", "done"}) => ~InvokedOp("pull")

\* a repository that was behind and was pulled
C13_Witness ==
    /\ pc = "repo_end"
    /\ behind = 1
    /\ Len(ops) = 5
    /\ ops[5].op = "pull" /\ ops[5].ok
    /\ ops[5].arg = <<"dev">>

\* the place of an operation in build_and_deploy: the first create_dir_all is
\* the one of the destination, every later operation belongs to copy_recursive
PublishRank(k) ==
    CASE ops[k].op = "build" -> 1
      [] ops[k].op = "dist_exists" -> 2
      [] ops[k].op = "dest_exists" -> 3
      [] ops[k].op = "remove_dir_all" -> 4
      [] ops[k].op = "create_dir_all"
           /\ ~\E j \in 1..(k - 1) : ops[j].op = "create_dir_all" -> 5
      [] OTHER -> 6

PublishIdx == {k \in 1..Len(ops) : ops[k].op \in PublishOps \cup {"dest_exists"}}

\* C14: within publish the steps happen in the order build, dist check, removal
\* of an existing destination, creation of the destination, recursive copy, each
\* of the first four at most once; the destination and all below it are gone
\* when the destination is created and the copy begins, and removal happens
\* only after the build succeeded and dist was found.
C14_PublishOrder ==
    /\ \A j, k \in PublishIdx :
         j < k => /\ PublishRank(j) <= PublishRank(k)
                  /\ PublishRank(k) < 6 => PublishRank(j) < PublishRank(k)
    /\ \A k \in PublishIdx :
         /\ PublishRank(k) >= 4 =>
              \E i, j \in 1..(k - 1) :
                  /\ ops[i].op = "build" /\ ops[i].ok /\ ops[i].out = "exit0"
                  /\ ops[j].op = "dist_exists" /\ ops[j].ok
         /\ PublishRank(k) >= 5 =>
              \E j \in 1..(k - 1) :
                  /\ ops[j].op = "dest_exists"
                  /\ ops[j].out = "exists" =>
                       \E i \in (j + 1)..(k - 1) : ops[i].op = "remove_dir_all" /\ ops[i].ok
         /\ PublishRank(k) = 6 =>
              \E j \in 1..(k - 1) : PublishRank(j) = 5 /\ ops[j].ok /\ ops[j].arg = Dest
    /\ pc = "create" => \A q \in DOMAIN fs : ~IsPrefix(Dest, q)

\* a publish that removed an existing destination and then copied a file
C14_Witness ==
    /\ pc = "repo_end"
    /\ IsOk(ret)
    /\ \E j, k \in 1..Len(ops) :
         /\ j < k
         /\ ops[j].op = "remove_dir_all" /\ ops[j].ok
         /\ ops[k].op = "copy" /\ ops[k].ok

\* the message msg contains the path p
NamesPath(msg, p) == \E i \in 1..Len(msg) : SubSeq(msg, i, i + Len(p) - 1) = p

\* an I/O operation on the destination of the current repository failed
IoFailed == ops # <<>> /\ Last(ops).op \in DeployOps /\ ~Last(ops).ok

\* C15: an I/O failure while clearing, creating or copying into the destination
\* aborts the publish: the failing operation is the last one invoked for the
\* repository and leaves the file system as it was, process_single returns an
\* error naming the failing path, process_all records it, and what earlier
\* operations created at the destination stays there.
C15_IoFailureAborts ==
    /\ [](\A k \in 1..Len(ops) :
            (ops[k].op \in DeployOps /\ ~ops[k].ok) =>
                /\ k = Len(ops)
                /\ stack = <<>>
                /\ pc \in {"repo_end", "done"}
                /\ IsErr(ret)
                /\ StepOfError(ret[2]) = ops[k].op
                /\ NamesPath(ret[2], ops[k].arg)
                /\ \A j \in 1..(k - 1) :
                     ops[j].op \in {"create_dir_all", "copy", "symlink"} =>
                         Exists(fs, ops[j].arg))
    /\ [][/\ (IoFailed' /\ ~IoFailed) => fs' = fs
          /\ IoFailed =>
               /\ fs' = fs
               /\ pc = "repo_end" => errors' = Append(errors, <<Cur.repo_path, ret[2]>>)]_vars

\* a copy that failed after an earlier entry had been copied
C15_Witness ==
    /\ pc = "repo_end"
    /\ IoFailed
    /\ Last(ops).op = "copy"
    /\ \E j \in 1..(Len(ops) - 1) :
         ops[j].op \in {"copy", "symlink"} /\ ops[j].ok /\ Exists(fs, ops[j].arg)

\* the entry under dist that copy_recursive wrote to the destination path d
SourceOf(d) == DistPath \o SubSeq(d, Len(Dest) + 1, Len(d))

\* C16: a symbolic link copy_recursive finds under dist is recreated at the
\* destination as a symbolic link with the same link target text, and no
\* directory is read and no file or directory is copied through a link; after a
\* successful publish to a target outside the source tree every link that was
\* under dist is at the destination, as a link with the same text.
C16_SymlinksRecreated ==
    /\ \A k \in 1..Len(ops) :
         /\ (ops[k].op = "symlink" /\ ops[k].ok) =>
              /\ after_build[SourceOf(ops[k].arg)].kind = "link"
              /\ ops[k].arg \in DOMAIN fs
              /\ fs[ops[k].arg] = after_build[SourceOf(ops[k].arg)]
         /\ (ops[k].op \in {"copy", "create_dir_all"} /\ PublishRank(k) = 6) =>
              /\ SourceOf(ops[k].arg) \in DOMAIN after_build
              /\ after_build[SourceOf(ops[k].arg)].kind # "link"
         /\ ops[k].op = "read_dir" =>
              (ops[k].arg \in DOMAIN after_build /\ after_build[ops[k].arg].kind = "dir")
    /\ (Published /\ IsDir(after_build, DistPath) /\ ~Overlaps(Cur)) =>
         \A r \in DOMAIN Subtree(after_build, DistPath) :
             after_build[DistPath \o r].kind = "link" =>
                 /\ Dest \o r \in DOMAIN fs
                 /\ fs[Dest \o r] = after_build[DistPath \o r]

\* a successful publish that recreated the link `latest` with its text
C16_Witness ==
    /\ Published
    /\ ~Overlaps(Cur)
    /\ Join(Dest, "latest") \in DOMAIN fs
    /\ fs[Join(Dest, "latest")] = Node("link", "assets/app.js")
    /\ \E k \in 1..Len(ops) : ops[k].op = "symlink" /\ ops[k].ok

\* the name read from the remote's symbolic HEAD: the command's output without
\* surrounding white space and without the refs/remotes/origin/ prefix
HeadName(sym) == Remove(Trim(sym.stdout), OriginPrefix)

\* C17: get_default_branch returns a branch name, never an error and never the
\* empty name, for every outcome of symbolic-ref and rev-parse (not started,
\* failed, succeeded): the name read from the symbolic HEAD when that is
\* non-empty, otherwise "main" when origin/main resolves, otherwise "master".
C17_DefaultBranchTotal ==
    call = "get_default_branch" =>
        /\ value # <<>>
        /\ value # None
        /\ \A k \in 1..Len(value) : value[k] # OriginPrefix
        /\ IF args.sym.started /\ HeadName(args.sym) # <<>>
           THEN value = HeadName(args.sym)
           ELSE IF args.rp.started /\ args.rp.success
           THEN value = <<"main">>
           ELSE value = <<"master">>

\* neither command could be started and the call returned "master"
C17_Witness ==
    /\ call = "get_default_branch"
    /\ ~args.sym.started
    /\ ~args.rp.started
    /\ value = <<"master">>

\* the output of rev-list was not a number for the current repository
Unparsable ==
    \E k \in 1..Len(ops) :
        /\ ops[k].op = "count_commits_behind"
        /\ ops[k].out \in {"exit0 unparsable", "exit1 unparsable"}

\* C18: when the output of rev-list cannot be parsed as a number,
\* count_commits_behind returns Ok(0): the step is not a failure, the repository
\* is taken as up to date, no pull is issued and processing goes on.
C18_ParseFailureIsZero ==
    Unparsable =>
        /\ ops[4].op = "count_commits_behind" /\ ops[4].ok
        /\ behind = 0
        /\ ~InvokedOp("pull")
        /\ pc # "pull"
        /\ Len(ops) = 4 => (ret # None => IsOk(ret))
        /\ (Len(ops) = 4 /\ IsSome(Cur.deploy_target)) => pc = "build"

\* a repository whose rev-list output was not a number and that ended Ok
C18_Witness ==
    /\ pc = "repo_end"
    /\ Unparsable
    /\ IsOk(ret)
    /\ behind = 0

\* run_sync_cycle is matching an error of process_all, in the daemon's loop
CycleFailed ==
    /\ dpc = "processing"
    /\ pc = "done"
    /\ result.status = "err"
    /\ looping

\* C19: in continuous mode, after a cycle whose process_all returned an error
\* the daemon exits if and only if stop_on_error is true; when it is false the
\* error is logged, the daemon goes to sleep, and the next cycle starts.
C19_StopOnError ==
    /\ [][(CycleFailed /\ dpc' # dpc) =>
            /\ dpc' \in {"exited", "sleep"}
            /\ dpc' = "exited" <=> settings.stop_on_error
            /\ lines' # <<>>
            /\ ~settings.stop_on_error =>
                 Last(lines') = <<"ERROR: ">> \o ErrorText(result)]_vars
    /\ [](dpc = "sleep" => \E n \in 1..Len(cycles) : n = cycle /\ cycles[n].status # "running")
    /\ \A n \in 1..(MaxCycles - 1) :
         (CycleFailed /\ ~settings.stop_on_error /\ cycle = n) ~> (cycle = n + 1)

\* a second cycle is running after a first cycle that reported an error
C19_Witness ==
    /\ cycle = 2
    /\ dpc = "processing"
    /\ looping
    /\ cycles[1].status = "err"
    /\ cycles[1].errors # <<>>

\* C20: each cycle processes exactly what read_repos makes of the list file as
\* it is when the cycle starts, so a change made to the file since the cycle
\* before is used; the list does not change during the cycle, and the failure
\* list starts empty and holds only failures of definitions of this cycle.
C20_NoStateAcrossCycles ==
    /\ [][/\ cycle' # cycle =>
               /\ cycle' = cycle + 1
               /\ repos_file # None =>
                    /\ repo_defs' = read_repos(repos_file[2])
                    /\ errors' = <<>>
                    /\ returned' = <<>>
                    /\ Last(cycles').read = repos_file[2]
          /\ cycle' = cycle => repo_defs' = repo_defs]_vars
    /\ [](dpc = "processing" =>
            /\ repo_defs = read_repos(cycles[cycle].read)
            /\ Len(errors) = Len(Failing)
            /\ \A k \in 1..Len(Failing) :
                 /\ errors[k] = <<Failing[k].repo.repo_path, Failing[k].ret[2]>>
                 /\ Failing[k].repo = repo_defs[Failing[k].idx])
    /\ [](\A n \in 1..Len(cycles) :
            /\ cycles[n].defs = read_repos(cycles[n].read)
            /\ \A k \in 1..Len(cycles[n].errors) :
                 \E j \in 1..Len(cycles[n].defs) :
                     cycles[n].defs[j].repo_path = cycles[n].errors[k][1])

\* the list was changed after a first cycle that failed, and the second cycle
\* processed the new list with no failure
C20_Witness ==
    /\ cycle = 2
    /\ dpc = "sleep"
    /\ cycles[1].read # cycles[2].read
    /\ cycles[1].errors # <<>>
    /\ cycles[2].defs = <<RepoDefinition(RepoA, None)>>
    /\ cycles[2].errors = <<>>
    /\ cycles[2].status = "ok"

\* the branches get_default_branch can return for a repository
BranchesOf(repo_path) ==
    {get_default_branch(sym, rp) :
        sym \in SymbolicRefOutcomes(repo_path), rp \in RevParseOutcomes}

\* C21: the default branch is resolved anew for every repository that reaches
\* synchronization, in every cycle: the resolution step returns what the
\* commands answered for this repository, whatever an earlier repository or
\* cycle resolved, and the behind-count and the pull are given that branch.
C21_BranchResolvedAnew ==
    /\ [][pc = "branch" => branch' \in BranchesOf(Cur.repo_path)]_vars
    /\ [](\A k \in 1..Len(ops) :
            ops[k].op \in {"count_commits_behind", "pull"} =>
                /\ ops[k].arg = branch
                /\ branch \in BranchesOf(Cur.repo_path)
                /\ ops[3].op = "get_default_branch")
    /\ [](pc \in {"count", "pull"} =>
            (branch \in BranchesOf(Cur.repo_path) /\ ops[3].op = "get_default_branch"))

\* in a second cycle a repository is pulled on its own remote's branch, after a
\* first cycle that ended with another repository's branch
C21_Witness ==
    /\ cycle = 2
    /\ dpc = "processing"
    /\ cycles[1].defs = <<RepoDefinition(RepoA, None), RepoDefinition(RepoB, None)>>
    /\ cycles[1].status = "ok"
    /\ idx >= 1
    /\ Cur.repo_path = RepoA
    /\ InvokedOp("pull")
    /\ branch = <<"dev">>

\* the text of a line without its white space
Unspaced(line) == Remove(line, " ")

\* C22 as stated: for every line from_line accepts, to_line of the parsed
\* definition is the line up to white space, and parsing the written line
\* gives the same definition.
C22_Original ==
    call = "from_line/to_line/from_line" =>
        /\ Unspaced(value.s) = Unspaced(args.line)
        /\ value.d2 = value.d

\* C22: for every line from_line accepts, parsing the line to_line writes
\* gives the same definition again; the written line is the trimmed line when
\* the line has no "=>", it is the line up to white space when the line has
\* a target, and it is the bare source, without the "=>", when the target
\* part of the line is empty.
C22_ParseSerializeStable ==
    call = "from_line/to_line/from_line" =>
        LET d == value.d[2]
        IN  /\ value.d2 = value.d
            /\ FindArrow(args.line) = 0 => value.s = Trim(args.line)
            /\ IsSome(d.deploy_target) => Unspaced(value.s) = Unspaced(args.line)
            /\ (FindArrow(args.line) # 0 /\ d.deploy_target = None) =>
                    /\ value.s = d.repo_path
                    /\ Unspaced(value.s) # Unspaced(args.line)

\* a line with both fields and white space to normalise was parsed, written
\* and parsed again
C22_Witness ==
    /\ call = "from_line/to_line/from_line"
    /\ args.line = <<" ", "a", "=>", "b", " ">>
    /\ value.s = <<"a", " ", "=>", " ", "b">>
    /\ value.d2 = Some(RepoDefinition(<<"a">>, Some(<<"b">>)))

\* a definition with its fields trimmed and a blank target taken as none
Normalised(d) ==
    RepoDefinition(Trim(d.repo_path),
                   IF IsSome(d.deploy_target) /\ Trim(d.deploy_target[2]) # <<>>
                   THEN Some(Trim(d.deploy_target[2]))
                   ELSE None)

\* the source of d reads as a comment or holds a "=>"
SourceHasMarker(d) ==
    Head(Trim(d.repo_path)) = "#" \/ FindArrow(d.repo_path) # 0

\* C23 as stated: for every definition whose source is not blank,
\* from_line(to_line(d)) has the same source and the same target, and a list
\* written by write_repos is read back by read_repos as the same list.
C23_Original ==
    /\ call = "to_line/from_line" => value.d = Some(args.d)
    /\ call = "write_repos/read_repos" => value.repos = args.repos

\* what does hold: a definition whose source neither starts with "#" nor
\* holds a "=>" is read back with its fields trimmed
RoundTripWithoutMarker ==
    /\ (call = "to_line/from_line" /\ ~SourceHasMarker(args.d)) =>
            value.d = Some(Normalised(args.d))
    /\ (call = "write_repos/read_repos"
            /\ \A k \in 1..Len(args.repos) : ~SourceHasMarker(args.repos[k])) =>
            value.repos = args.repos

\* a list the repository manager saved, one source starting with "#", is
\* read back without that definition
LostOnReadBack ==
    /\ call = "write_repos/read_repos"
    /\ args.repos = <<RepoDefinition(<<"#">>, None), RepoDefinition(<<"a">>, None)>>
    /\ value.repos = <<RepoDefinition(<<"a">>, None)>>

Blank(line) == \A i \in 1..Len(line) : IsSpace(line[i])

\* the first token of the line that is not white space is "#"
Comment(line) == ~Blank(line) /\ Head(Trim(line)) = "#"

\* the line has a "=>" with nothing but white space before the first one
EmptySource(line) ==
    /\ FindArrow(line) # 0
    /\ Blank(SubSeq(line, 1, FindArrow(line) - 1))

\* the line gives a definition
Accepted(line) == ~Blank(line) /\ ~Comment(line) /\ ~EmptySource(line)

\* d is what the text of the line says: the trimmed line when there is no
\* "=>", else the trimmed texts on both sides of the first "=>", an empty
\* right side meaning no target
Reads(line, d) ==
    LET i == FindArrow(line)
        right == Trim(SubSeq(line, i + 1, Len(line)))
    IN  IF i = 0
        THEN d = RepoDefinition(Trim(line), None)
        ELSE /\ d.repo_path = Trim(SubSeq(line, 1, i - 1))
             /\ d.deploy_target = IF right = <<>> THEN None ELSE Some(right)

\* the places of the lines of the file that satisfy Test, in file order
Places(file, Test(_)) ==
    SelectSeq([i \in 1..Len(file) |-> i], LAMBDA i : Test(file[i]))

\* C24 as stated: a line gives a definition if and only if it is neither
\* blank nor a comment, and read_repos gives one definition for each such
\* line, in file order.
C24_Original ==
    /\ call = "from_line" => (IsSome(value.d) <=> (~Blank(args.line) /\ ~Comment(args.line)))
    /\ call = "read_repos" =>
            Len(value.repos) =
                Len(Places(args.file, LAMBDA l : ~Blank(l) /\ ~Comment(l)))

\* C24: read_repos yields, in file order, one definition for each line that,
\* once trimmed, is not empty, does not begin with "#" and has a non-empty
\* source part; a line "source => target" gives both fields trimmed, a bare
\* path or an empty target part gives deployTarget none, and every other line
\* gives nothing.
C24_ReadInFileOrder ==
    /\ call = "from_line" =>
            /\ IsSome(value.d) <=> Accepted(args.line)
            /\ IsSome(value.d) => Reads(args.line, value.d[2])
    /\ call = "read_repos" =>
            LET at == Places(args.file, Accepted)
            IN  /\ Len(value.repos) = Len(at)
                /\ \A k \in 1..Len(at) : Reads(args.file[at[k]], value.repos[k])

\* a file with a comment, a line with both fields and a bare path with white
\* space around it was read
C24_Witness ==
    /\ call = "read_repos"
    /\ args.file = << <<"#", " ", "a">>, <<"a", "=>", " ", "b">>, <<" ", "b", " ">> >>
    /\ value.repos = <<RepoDefinition(<<"a">>, Some(<<"b">>)), RepoDefinition(<<"b">>, None)>>

\* the source is not empty and has no white space around it, the target is
\* absent or not empty
WellFormed(d) ==
    /\ d.repo_path # <<>>
    /\ ~IsSpace(Head(d.repo_path))
    /\ ~IsSpace(d.repo_path[Len(d.repo_path)])
    /\ d.deploy_target # None => (IsSome(d.deploy_target) /\ d.deploy_target[2] # <<>>)

\* C25: every definition from_line or read_repos produces has a source that
\* is not empty and has no surrounding white space, and a target that is
\* absent or not empty; a line whose source part is empty gives no definition
\* and no error: from_line answers None and read_repos goes on to the lines
\* after it.
C25_ParsedWellFormed ==
    /\ call = "from_line" =>
            /\ IsSome(value.d) => WellFormed(value.d[2])
            /\ EmptySource(args.line) => value.d = None
    /\ call = "read_repos" =>
            /\ \A k \in 1..Len(value.repos) : WellFormed(value.repos[k])
            /\ \A i \in 1..Len(args.file) :
                    EmptySource(args.file[i]) =>
                        value.repos =
                            read_repos(SubSeq(args.file, 1, i - 1))
                                \o read_repos(SubSeq(args.file, i + 1, Len(args.file)))

\* a file whose first line has no source part and whose second line has white
\* space around the source and an empty target part was read
C25_Witness ==
    /\ call = "read_repos"
    /\ args.file = << <<"=>", " ", "b">>, <<"a", " ", "=>">> >>
    /\ value.repos = <<RepoDefinition(<<"a">>, None)>>

\* the pull-result lines reported so far
PullLines == SelectSeq(lines, LAMBDA l : l # <<>> /\ l[1] = "Resultado de 'git pull':\n")

\* the pulls that were invoked and succeeded so far
PullsSucceeded == SelectSeq(ops, LAMBDA e : e.op = "pull" /\ e.ok)

\* this step reports a pull-result line
ReportsPull == Len(PullLines') = Len(PullLines) + 1

\* this step invokes pull for the current repository and pull succeeds
PullSucceeds ==
    /\ pc = "pull"
    /\ Len(ops') = Len(ops) + 1
    /\ ops'[Len(ops')].op = "pull"
    /\ ops'[Len(ops')].ok

\* C26 as stated: a pull-result line is reported for a repository if and only
\* if pull was invoked for it and succeeded.
C26_Original == [][ReportsPull <=> PullSucceeds]_vars

\* C26: with verbose reporting on, a pull-result line is reported for a
\* repository if and only if pull was invoked for it and succeeded, none for
\* a repository that is up to date and one for a repository that was behind
\* and pulled; with verbose reporting off no pull-result line is reported.
\* (lines and ops hold what was reported and invoked for the repository the
\* loop is at.)
C26_PullLineIffPulled ==
    /\ [][ReportsPull <=> (verbose /\ PullSucceeds)]_vars
    /\ [](Len(PullLines) = IF verbose THEN Len(PullsSucceeded) ELSE 0)
    /\ [](Len(PullLines) <= 1)
    /\ [](behind = 0 => (PullLines = <<>> /\ ~InvokedOp("pull")))
    /\ [](\A k \in 1..Len(ops) :
            ops[k].op = "pull" =>
                /\ k > 1
                /\ ops[k - 1].op = "count_commits_behind"
                /\ ops[k - 1].out = "exit0"
                /\ behind >= 1)

\* verbose reporting is on and the second repository of the batch, which was
\* behind, has been pulled: one pull-result line was reported for it
C26_Witness ==
    /\ verbose
    /\ pc = "repo_end"
    /\ idx = 2
    /\ returned[1].ret = Ok
    /\ behind = 1
    /\ ops[Len(ops)].op = "pull"
    /\ ops[Len(ops)].ok
    /\ ret = Ok
    /\ Len(PullLines) = 1

\* the call of fetch or pull for the current repository has just failed
GitStepFailed ==
    /\ pc = "repo_end"
    /\ IsErr(ret)
    /\ ops # <<>>
    /\ ops[Len(ops)].op \in {"fetch", "pull"}
    /\ ~ops[Len(ops)].ok

\* what check_and_pull puts in front of the error of the step
StepPrefix(op) ==
    IF op = "fetch" THEN <<"No se pudo ejecutar 'git fetch': ">>
    ELSE <<"No se pudo ejecutar 'git pull': ">>

\* C27 as stated: the failure detail recorded for a repository whose fetch or
\* pull failed is the bytes the tool wrote to stderr, unmodified.
C27_Original == GitStepFailed => ret[2] = ops[Len(ops)].stderr

\* C27: the failure detail recorded for a repository whose fetch or pull ran
\* and exited with a failure status is the name of the step followed by the
\* tool's standard-error text, not trimmed and not shortened, its bytes that
\* are not valid UTF-8 replaced by U+FFFD; when the tool could not be started
\* there is no standard-error text and the detail is the name of the step,
\* twice, followed by the operating system's error.  process_all records that
\* detail for the repository as it is.
C27_DetailCarriesStderr ==
    /\ [](GitStepFailed =>
            LET e == ops[Len(ops)]
            IN  IF e.out = "spawn"
                THEN ret[2] = StepPrefix(e.op) \o StepPrefix(e.op) \o <<"os error">>
                ELSE /\ e.out = "exit1"
                     /\ ret[2] = StepPrefix(e.op) \o FromUtf8Lossy(e.stderr)
                     /\ (\A k \in 1..Len(e.stderr) : e.stderr[k] # BadByte) =>
                            ret[2] = StepPrefix(e.op) \o e.stderr)
    /\ [][GitStepFailed => errors' = Append(errors, <<Cur.repo_path, ret[2]>>)]_vars

\* fetch exited with a failure status after writing a line to stderr, and the
\* detail is that line, newline included, behind the name of the step
C27_Witness ==
    /\ GitStepFailed
    /\ ops[Len(ops)].op = "fetch"
    /\ ops[Len(ops)].stderr = <<"fatal: unable to access remote", "\n">>
    /\ ret[2] = <<"No se pudo ejecutar 'git fetch': ", "fatal: unable to access remote", "\n">>

\* the behind-count command of the current repository could not be started
\* or exited with a non-zero status
CountUndetermined(k) ==
    /\ ops[k].op = "count_commits_behind"
    /\ ops[k].out \in {"spawn", "exit1", "exit1 unparsable"}

ReportedUpToDate ==
    \E i \in 1..Len(lines) : lines[i] = <<"El repositorio ya esta actualizado.">>

\* C28 as stated: whenever the behind-count of a repository could not be
\* determined, a non-zero exit of the revision-count command included, the
\* status check fails, that failure is what is recorded for the repository,
\* and the repository is not reported as up to date.
C28_Original ==
    \A k \in 1..Len(ops) :
        CountUndetermined(k) =>
            /\ ~ops[k].ok
            /\ ~ReportedUpToDate
            /\ pc = "repo_end" =>
                    (IsErr(ret) /\ StepOfError(ret[2]) = "count_commits_behind")

\* what does hold: the status check fails when the command cannot be started
StatusCheckFailsOnSpawn ==
    \A k \in 1..Len(ops) :
        (ops[k].op = "count_commits_behind" /\ ops[k].out = "spawn") =>
            /\ ~ops[k].ok
            /\ ~ReportedUpToDate
            /\ pc = "repo_end" =>
                    (IsErr(ret) /\ StepOfError(ret[2]) = "count_commits_behind")

\* the revision-count command exited with a non-zero status and the
\* repository was reported as up to date and processed without error
UpToDateAfterFailedCount ==
    /\ pc = "repo_end"
    /\ verbose
    /\ ops[Len(ops)].op = "count_commits_behind"
    /\ ops[Len(ops)].out = "exit1 unparsable"
    /\ ops[Len(ops)].ok
    /\ behind = 0
    /\ ReportedUpToDate
    /\ ret = Ok

\* the source working tree, dist included, is as the build left it
SourceAsBuilt == Subtree(fs, Cur.repo_path) = Subtree(after_build, Cur.repo_path)

\* C29 as stated: for every pair of source path and deploy target, targets in
\* or above the source tree included, the source working tree and its dist
\* directory are the same during and after publish as they were after the
\* build.
C29_Original ==
    (pc \in {"dist_check", "clear", "create", "copy", "repo_end"} /\ BuildSucceeded) =>
        SourceAsBuilt

\* what does hold: publish leaves the source tree alone when the deploy target
\* is outside the source tree and the source tree is outside the deploy target
SourceUntouchedOutsideSource ==
    (pc \in {"dist_check", "clear", "create", "copy", "repo_end"}
        /\ BuildSucceeded /\ ~Overlaps(Cur)) =>
        SourceAsBuilt

\* the deploy target is the source's own dist directory: publish returned Ok
\* and the dist directory the build filled is empty
DistWipedByPublish ==
    /\ Published
    /\ Dest = DistPath
    /\ Subtree(after_build, DistPath) # Subtree(fs, DistPath)
    /\ \A q \in DOMAIN fs : IsPrefix(DistPath, q) => q = DistPath

\* the batch has two definitions that name the same deploy target
SameTarget ==
    /\ Len(repo_defs) = 2
    /\ IsSome(repo_defs[1].deploy_target)
    /\ repo_defs[1].deploy_target = repo_defs[2].deploy_target

\* the dist directory of the k-th definition
DistOf(k) == Join(repo_defs[k].repo_path, "dist")

\* C30: when two definitions of a batch name the same deploy target, the
\* publish of the second starts after the publish of the first has returned
\* and every change of the file system is made by a step of the one repository
\* the loop is at; after a cycle in which both succeeded the destination holds
\* exactly the directories, files and links that are under the dist directory
\* of the second definition, which for a target outside its source tree are
\* the ones its build left.
C30_LaterPublishWins ==
    /\ [][(SameTarget /\ fs' # fs) =>
            /\ pc \in {"build", "clear", "create", "copy"}
            /\ idx' = idx
            /\ Len(returned) = idx - 1
            /\ returned' = returned]_vars
    /\ []((SameTarget /\ idx = 2 /\ pc # "done") =>
            /\ Len(returned) = 1
            /\ returned[1].repo = repo_defs[1]
            /\ returned[1].ret # None)
    /\ []((SameTarget /\ pc = "done" /\ errors = <<>>) =>
            /\ IsOk(returned[1].ret) /\ IsOk(returned[2].ret)
            /\ IsDir(fs, repo_defs[2].deploy_target[2])
            /\ Subtree(fs, repo_defs[2].deploy_target[2]) = Copyable(Subtree(fs, DistOf(2))))
    /\ []((SameTarget /\ idx = 2 /\ Published /\ IsOk(returned[1].ret) /\ ~Overlaps(Cur)) =>
            /\ Subtree(fs, DistPath) = Subtree(after_build, DistPath)
            /\ Subtree(fs, Dest) = Copyable(Subtree(after_build, DistPath)))

\* two repositories publish to the same target and both succeeded: the
\* destination holds the second one's build, which differs from the first's
C30_Witness ==
    /\ pc = "done"
    /\ repo_defs = <<RepoDefinition(RepoA, Some(Pub)), RepoDefinition(RepoB, Some(Pub))>>
    /\ errors = <<>>
    /\ Subtree(fs, DistOf(1)) = TreeFull
    /\ Subtree(fs, DistOf(2)) = TreeSmall
    /\ Subtree(fs, Pub) = Copyable(TreeSmall)

\* C31: verbose affects reporting only.  Whatever step the processor takes
\* from a state with one value of verbose, on some outcome of the external
\* tool, it can take from the same state with the other value: the same
\* operation is invoked and the same result, file system and recorded errors
\* follow; only the reported lines differ.  Step by step, two calls on the
\* same list and the same outcomes therefore invoke the same operations and
\* return the same result.
C31_VerboseReportingOnly ==
    call = "match" => ENABLED (Next /\ Low' = value)

\* a verbose and a quiet processor have pulled the same repository: the same
\* operation and result, and a result line reported by one of them only
C31_Witness ==
    /\ call = "match"
    /\ pc = "pull"
    /\ ~verbose
    /\ value[2] = "repo_end"
    /\ value[11][Len(value[11])].op = "pull"
    /\ value[11][Len(value[11])].ok
    /\ value[5] = Ok

\* run_daemon has returned, called exit or panicked
Terminated == dpc \in {"returned", "exited", "panicked"}

\* this step ends the daemon
Terminates == ~Terminated /\ Terminated'

\* this step ends the daemon from run_sync_cycle's stop_on_error branch
StoppedOnError ==
    /\ dpc = "processing"
    /\ pc = "done"
    /\ result.status = "err"
    /\ settings.stop_on_error
    /\ dpc' = "exited"

\* what the statement says of a daemon started with continuous_mode off, and
\* of the reload
OneShotAndReload ==
    /\ [](dpc = "cycle" /\ cycle = 0 =>
            (settings.mode = "production" /\ looping = settings.continuous_mode))
    /\ [][dpc # "start" => looping' = looping]_vars
    /\ [](~looping => cycle <= 1)
    /\ []((~looping /\ cycle = 1) => (dpc = "processing" \/ Terminated))
    /\ [][(~looping /\ dpc = "processing" /\ dpc' # dpc) => dpc' \in {"returned", "exited"}]_vars
    /\ (~looping /\ dpc = "cycle") ~> (cycle = 1)
    /\ (~looping /\ dpc = "processing" /\ pc = "done") ~> Terminated
    /\ [][dpc = "sleep" /\ dpc' # dpc =>
            /\ dpc' = "cycle"
            /\ settings' = reload(settings, settings_file)]_vars
    /\ \A n \in 1..(MaxCycles - 1) :
            (looping /\ dpc = "sleep" /\ cycle = n) ~> (cycle = n + 1)

SettingNames == {"mode", "stop_on_error", "continuous_mode", "verbose", "sync_interval"}

\* this step is the reload at the end of the sleep
Reloads == dpc = "sleep" /\ dpc' # dpc

\* C33: the reload between two cycles is all or nothing: when config.toml is
\* missing or does not parse every setting keeps its value, otherwise every
\* setting takes the file's value; the settings change at no other moment of
\* the loop, and the cycle after the reload runs with the reloaded verbose and
\* stop_on_error and sleeps for the reloaded sync_interval.
C33_ReloadAllOrNothing ==
    /\ [][Reloads =>
            IF IsSome(settings_file)
            THEN \A f \in SettingNames : settings'[f] = settings_file[2][f]
            ELSE \A f \in SettingNames : settings'[f] = settings[f]]_vars
    /\ [][(dpc # "start" /\ ~Reloads) => settings' = settings]_vars
    /\ [][cycle' # cycle /\ dpc' = "processing" => verbose' = settings.verbose]_vars
    /\ [](dpc = "processing" => verbose = settings.verbose)
    /\ [][(CycleFailed /\ dpc' # dpc) => (dpc' = "exited" <=> settings.stop_on_error)]_vars
    /\ [][(dpc = "processing" /\ dpc' = "sleep") =>
            cycles'[cycle].slept = settings.sync_interval]_vars
    /\ [](\A n \in 1..Len(cycles) : cycles[n].slept \in {0, 5, 60})

\* the daemon started with the default settings, the file was changed during
\* the first sleep, and the second cycle ran quiet, went on after its failure
\* and slept 5 seconds where the first slept 60
C33_Witness ==
    /\ cycle = 2
    /\ dpc = "sleep"
    /\ cycles[1].slept = 60
    /\ cycles[2].slept = 5
    /\ cycles[2].status = "err"
    /\ ~verbose
    /\ settings = Quick(Settings("production", FALSE, TRUE, FALSE))

\* the file did not parse at the reload and the second cycle ran with the
\* settings of the first
ReloadKeptSettings ==
    /\ cycle = 2
    /\ dpc = "processing"
    /\ ~IsSome(settings_file)
    /\ settings = DefaultSettings

\* the selection names an entry of the list, or nothing when there is none
Consistent(selected, list) ==
    IF list = <<>>
    THEN selected = None
    ELSE IsSome(selected) /\ 0 <= selected[2] /\ selected[2] < Len(list)

\* C34: in the repository manager, after any sequence of key events the
\* selection is consistent with the list: nothing is selected when the list
\* is empty, and 0 <= i < length of the list holds of the selected index i
\* when it is not.  (A key event whose write fails ends run_loop with the
\* error, and the manager with it.)
C34_SelectionConsistent == mpc \in {"running", "ok"} => Consistent(list_state, repos)

\* the second of two repositories was selected and deleted, and the
\* selection moved up to the one that is left
C34_Witness ==
    /\ mpc = "running"
    /\ key = "d"
    /\ message = Some("deleted")
    /\ repos = <<RepoDefinition(<<"a">>, None)>>
    /\ repos_file = Some(WriteHeader \o << <<"a">> >>)
    /\ written = Some(repos)
    /\ list_state = Some(0)

\* the only repository was deleted and nothing is selected
DeletedLast ==
    /\ mpc = "running"
    /\ key = "d"
    /\ repos = <<>>
    /\ written = Some(<<>>)
    /\ list_state = None

\* a repository was added to the empty list and is selected
AddedFirst ==
    /\ mpc = "running"
    /\ key = "Enter"
    /\ input_mode = Normal
    /\ Len(repos) = 1
    /\ written = Some(repos)
    /\ list_state = Some(0)
    /\ IsSome(repos_file) /\ repos_file[2] # DefaultReposFile /\ Len(repos_file[2]) = 9

\* delete_selected left at the `?`: the list is one shorter, the selection is
\* where it was, and run_loop has returned the error
DeleteFailed ==
    /\ mpc = "err"
    /\ key = "d"
    /\ repos = <<>>
    /\ list_state = Some(0)

\* the repositories file holds what write_repos makes of the in-memory list,
\* and that list is the one last written
Saved ==
    /\ written = Some(repos)
    /\ repos_file = Some(write_repos(repos))

\* nothing was written yet and the in-memory list is the one read at the start
AsRead ==
    /\ written = None
    /\ IsSome(repos_file)
    /\ repos = read_repos(repos_file[2])

\* C35: in the repository manager, every completed add, edit or delete
\* writes the whole in-memory list to the repositories file before the
\* manager is back in Normal mode, so whenever the manager is in Normal mode
\* the last written list equals the in-memory list (before the first write,
\* the in-memory list is the one read from the file); a write that fails ends
\* the manager loop with an error.
C35_PersistedInNormal ==
    /\ []((mpc = "running" /\ input_mode = Normal) => (Saved \/ AsRead))
    /\ [][(mpc' = "running" /\ repos' # repos) => (Saved' /\ input_mode' = Normal)]_vars
    /\ [][(repos' # repos /\ ~Saved') => mpc' = "err"]_vars
    /\ [][written' # written => written' = Some(repos')]_vars

\* the destination of the second repository was cleared by an edit, and the
\* file holds both lines again
C35_Witness ==
    /\ mpc = "running"
    /\ input_mode = Normal
    /\ key = "Enter"
    /\ message = Some("updated")
    /\ Len(repos) = 2
    /\ repos[2] = RepoDefinition(<<"b">>, None)
    /\ Saved
    /\ repos_file[2] = WriteHeader \o << <<"a">>, <<"b">> >>

\* fs::write failed while a repository was added: the list has the entry,
\* the file does not, and run_loop has returned the error
AddNotWritten ==
    /\ mpc = "err"
    /\ key = "Enter"
    /\ input_mode.mode = "AddingDestination"
    /\ Len(repos) = 1
    /\ written = None
    /\ repos_file = Some(DefaultReposFile)

\* set_permissions failed after the file was written
WrittenThenFailed ==
    /\ mpc = "err"
    /\ key = "d"
    /\ Saved
    /\ Len(repos) = 1

\* the modes the manager asks something in
InputModes == {"ChoosingBuildType"} \cup TextModes

\* run_loop handles Esc while the manager is in an input mode
EscInInputMode ==
    /\ mpc = "running"
    /\ input_mode.mode \in InputModes
    /\ key' = "Esc"

\* C36: in the repository manager, pressing Esc in any input mode (choosing
\* the build type, adding or editing a source or a destination, the env
\* confirmation) returns to Normal mode with the input buffer cleared, the
\* repository list unchanged and nothing written to the repositories file.
C36_EscCancels ==
    /\ [][EscInInputMode =>
            /\ mpc' = "running"
            /\ input_mode' = Normal
            /\ input' = <<>>
            /\ UNCHANGED <<repos, list_state, repos_file, written, fs>>]_vars
    /\ [](input_mode.mode \in InputModes \cup {"Normal"})
    /\ [](mpc = "running" /\ input_mode # Normal => ENABLED CancelInput)

\* Esc was pressed in an input mode after an earlier add had been written:
\* the manager is in Normal mode with an empty buffer and the written list
C36_Witness ==
    /\ mpc = "running"
    /\ key = "Esc"
    /\ message = Some("cancelled")
    /\ input_mode = Normal
    /\ input = <<>>
    /\ Len(repos) = 1
    /\ Saved

\* a destination is being edited with text in the buffer: Esc is about to
\* drop it
EscDropsText ==
    /\ mpc = "running"
    /\ input_mode.mode = "EditingDestination"
    /\ input # <<>>
    /\ ENABLED CancelInput

\* every definition of the list has a source that is not empty after trim
SourcesNotEmpty == \A k \in 1..Len(repos) : Trim(repos[k].repo_path) # <<>>

\* run_loop handles Enter on a buffer that is empty after trim, while a
\* source is asked for
EmptySourceSubmitted ==
    /\ mpc = "running"
    /\ input_mode.mode \in {"AddingSource", "EditingSource"}
    /\ Trim(input) = <<>>
    /\ key' = "Enter"

\* C37: in the repository manager, no sequence of key events puts into the
\* list a definition whose source path is empty after trim: submitting an
\* empty source while adding or editing leaves the list and the input mode
\* unchanged.
C37_NoEmptySource ==
    /\ []SourcesNotEmpty
    /\ [][EmptySourceSubmitted =>
            /\ mpc' = "running"
            /\ message' = Some("empty_source")
            /\ UNCHANGED <<repos, input_mode, input, list_state, repos_file, written>>]_vars
    /\ [][repos' # repos =>
            \A k \in 1..Len(repos') : Trim(repos'[k].repo_path) = repos'[k].repo_path]_vars

\* Enter on a buffer of blanks while a new source is asked for: the manager
\* still asks for it, with the list as it was
C37_Witness ==
    /\ mpc = "running"
    /\ key = "Enter"
    /\ message = Some("empty_source")
    /\ input_mode = AddingSource(TRUE)
    /\ input = <<" ", " ">>
    /\ repos = <<>>
    /\ written = None

\* the source of an entry was blanked in an edit and Enter pressed: the
\* entry is as it was
EmptyEditRefused ==
    /\ mpc = "running"
    /\ key = "Enter"
    /\ message = Some("empty_source")
    /\ input_mode = EditingSource(0)
    /\ input = <<>>
    /\ repos = <<RepoDefinition(<<"a">>, None)>>

\* a source typed with a blank before it was stored without the blank
TrimmedSourceAdded ==
    /\ mpc = "running"
    /\ key = "Enter"
    /\ message = Some("added")
    /\ Len(repos) = 1
    /\ repos[1].repo_path = <<"a">>
    /\ Saved

====
